---- MODULE Spec2Model ----
(***************************************************************************)
(* Block-to-code compiler of lib/code_generation/code_generator.py:        *)
(* CodeGenerator (source text + execution plan), CommandPalette (level     *)
(* gated registry), VisualWorkflow and GameplaySession.                    *)
(*                                                                         *)
(* Representation of the Python values:                                    *)
(*  - a scalar is a record [kind, num, str]: an int, a str, or a float     *)
(*    kept in tenths (FloatV(5) is 0.5), so that 0, "0" and 0.0 differ;    *)
(*  - a str holding program text is a non-empty sequence of the pieces     *)
(*    between its newlines, each piece [ind, txt]: the number of leading   *)
(*    blanks and the rest of the piece;                                    *)
(*  - a dict is a record (block, params, plan step) or, for the variable   *)
(*    table, a set of <<key, value>> pairs with unique keys;               *)
(*  - a raised exception is the err field of a handler's result, with the  *)
(*    generator state as it was when the exception left the handler.       *)
(***************************************************************************)
EXTENDS Integers, Sequences, FiniteSets, TLC

VARIABLES
    gen,        \* gen[i]: indent_level and variables of CodeGenerator instance i
    request,    \* the block sequence (and prelude flag) the caller holds, or NoRequest
    out,        \* out[i]: what instance i returned for the request, or NoOut
    current_level,  \* GameplaySession.current_level
    pal_level,      \* GameplaySession.palette.current_level
    sequence,       \* GameplaySession.workflow.sequence
    code_cache,     \* GameplaySession.code_cache
    sgen,           \* state of GameplaySession.generator
    ret,            \* value returned by the last GameplaySession call
    palette,        \* a CommandPalette of its own: its current_level
    reply,          \* the last query of that palette: its arguments and its answer
    thr,            \* thr[t]: the call of generate_from_blocks that thread t is running
    cgen,           \* cgen[g]: indent_level and variables of the instances the threads use
    flow,           \* a VisualWorkflow of its own: its sequence
    edit            \* the last call on that workflow and its arguments

compilerVars == <<gen, request, out>>
sessionVars == <<current_level, pal_level, sequence, code_cache, sgen, ret>>
paletteVars == <<palette, reply>>
threadVars == <<thr, cgen>>
workflowVars == <<flow, edit>>
vars == <<gen, request, out, current_level, pal_level, sequence, code_cache, sgen, ret,
          palette, reply, thr, cgen, flow, edit>>

(***************************************************************************)
(* Bounds of the model.                                                    *)
(***************************************************************************)
MaxIter == 2        \* largest integer 'iterations' of a Loop block
MaxBody == 2        \* longest body of leaf blocks
ExtraLevels == 1    \* levels tried beyond the last level of the game
MaxSeq == 2         \* longest workflow of a session

(***************************************************************************)
(* Python scalars.                                                         *)
(***************************************************************************)
IntV(n) == [kind |-> "int", num |-> n, str |-> ""]
StrV(s) == [kind |-> "str", num |-> 0, str |-> s]
FloatV(tenths) == [kind |-> "float", num |-> tenths, str |-> ""]

\* f"{v}" for an int or a str
Fmt(v) == IF v.kind = "int" THEN ToString(v.num) ELSE v.str

\* repr(v) for an int or a str
Repr(v) == IF v.kind = "int" THEN ToString(v.num) ELSE "'" \o v.str \o "'"

\* d.get(key, default)
Get(d, key, default) == IF key \in DOMAIN d THEN d[key] ELSE default

\* {} as params
NoParams == [k \in {} |-> 0]

(***************************************************************************)
(* Program text.                                                           *)
(***************************************************************************)
RECURSIVE Blanks(_)
Blanks(n) == IF n <= 0 THEN "" ELSE " " \o Blanks(n - 1)

Piece(ind, txt) == [ind |-> ind, txt |-> txt]
EmptyText == <<Piece(0, "")>>          \* ""
NL == <<Piece(0, ""), Piece(0, "")>>   \* "\n"

\* one-piece text: n blanks followed by txt
Str(n, txt) == <<Piece(n, txt)>>

JoinPieces(p, q) ==
    IF p.txt = "" THEN Piece(p.ind + q.ind, q.txt)
    ELSE Piece(p.ind, p.txt \o Blanks(q.ind) \o q.txt)

\* a + b on str
Cat(a, b) ==
    SubSeq(a, 1, Len(a) - 1) \o <<JoinPieces(a[Len(a)], b[1])>> \o SubSeq(b, 2, Len(b))

\* "\n".join(texts)
RECURSIVE JoinNL(_)
JoinNL(texts) ==
    IF Len(texts) = 0 THEN EmptyText
    ELSE IF Len(texts) = 1 THEN texts[1]
    ELSE LET h == Len(texts) \div 2
         IN Cat(Cat(JoinNL(SubSeq(texts, 1, h)), NL), JoinNL(SubSeq(texts, h + 1, Len(texts))))

\* ", ".join(strs)
RECURSIVE JoinComma(_)
JoinComma(strs) ==
    IF Len(strs) = 0 THEN ""
    ELSE IF Len(strs) = 1 THEN strs[1]
    ELSE strs[1] \o ", " \o JoinComma(Tail(strs))

\* truth value of a str
Truthy(text) == text # EmptyText

(***************************************************************************)
(* CodeGenerator state.                                                    *)
(***************************************************************************)
indent_size == 4

NewGenerator == [indent_level |-> 0, variables |-> {}]

\* a reset that forgets to clear the depth
reset_KeepDepth(st) == [indent_level |-> st.indent_level, variables |-> {}]

\* a reset that forgets to clear the variable table
reset_KeepVariables(st) == [indent_level |-> 0, variables |-> st.variables]

reset(st) == [indent_level |-> 0, variables |-> {}]

\* number of blanks of self._indent()
Indent(st) == st.indent_level * indent_size

\* f"{self._indent()}<txt>"
Ln(st, txt) == Str(Indent(st), txt)

\* the placeholder at the depth of the header
PassLine_NoIndent(st) == Str(Indent(st), "pass")

\* f"{self._indent()}    pass"
PassLine(st) == Str(Indent(st) + 4, "pass")

\* self.variables[name] = value
SetVar(variables, name, value) ==
    {p \in variables : p[1] # name} \cup {<<name, value>>}

Ok(code, plan, st) == [code |-> code, plan |-> plan, st |-> st, err |-> FALSE]
Raise(st) == [code |-> EmptyText, plan |-> <<>>, st |-> st, err |-> TRUE]

(***************************************************************************)
(* Leaf handlers.                                                          *)
(***************************************************************************)
handle_move_forward(params, idx, st) ==
    LET distance == Get(params, "distance", IntV(1))
    IN Ok(Ln(st, "print(f\"{'move forward'}\")"),
          <<[step |-> idx, action |-> "move", direction |-> "forward",
             distance |-> distance, duration |-> FloatV(10)]>>, st)

handle_move_backward(params, idx, st) ==
    LET distance == Get(params, "distance", IntV(1))
    IN Ok(Cat(Cat(Ln(st, "# Move backward " \o Fmt(distance) \o " units"), NL),
              Ln(st, "move_backward(" \o Fmt(distance) \o ")")),
          <<[step |-> idx, action |-> "move", direction |-> "backward",
             distance |-> distance, duration |-> FloatV(10)]>>, st)

\* a turn that shows its degrees in the text
handle_turn_left_Shown(params, idx, st) ==
    LET degrees == Get(params, "degrees", IntV(90))
    IN Ok(Ln(st, "turn_left(" \o Fmt(degrees) \o ")"),
          <<[step |-> idx, action |-> "rotate", direction |-> "left",
             degrees |-> degrees, duration |-> FloatV(5)]>>, st)

handle_turn_left(params, idx, st) ==
    LET degrees == Get(params, "degrees", IntV(90))
    IN Ok(Ln(st, "print(f\"{'turn left'}\")"),
          <<[step |-> idx, action |-> "rotate", direction |-> "left",
             degrees |-> degrees, duration |-> FloatV(5)]>>, st)

handle_turn_right(params, idx, st) ==
    LET degrees == Get(params, "degrees", IntV(90))
    IN Ok(Ln(st, "print(f\"{'turn right'}\")"),
          <<[step |-> idx, action |-> "rotate", direction |-> "right",
             degrees |-> degrees, duration |-> FloatV(5)]>>, st)

handle_jump(params, idx, st) ==
    LET height == Get(params, "height", IntV(1))
    IN Ok(Cat(Cat(Ln(st, "# Jump " \o Fmt(height) \o " units high"), NL),
              Ln(st, "jump(" \o Fmt(height) \o ")")),
          <<[step |-> idx, action |-> "jump", height |-> height,
             duration |-> FloatV(8)]>>, st)

\* a pick whose duration grows with the length of the name
handle_pick_object_Timed(params, idx, st) ==
    LET object_name == Get(params, "object_name", StrV("item"))
    IN Ok(Ln(st, "print(f\"{'claim a coin'}\")"),
          <<[step |-> idx, action |-> "pick_object", object_name |-> object_name,
             duration |-> FloatV(Len(object_name.str))]>>, st)

handle_pick_object(params, idx, st) ==
    LET object_name == Get(params, "object_name", StrV("item"))
    IN Ok(Ln(st, "print(f\"{'claim a coin'}\")"),
          <<[step |-> idx, action |-> "pick_object", object_name |-> object_name,
             duration |-> FloatV(5)]>>, st)

handle_print(params, idx, st) ==
    LET message == Get(params, "message", StrV("Hello"))
    IN Ok(Cat(Cat(Ln(st, "# Print message"), NL),
              Ln(st, "print(\"" \o Fmt(message) \o "\")")),
          <<[step |-> idx, action |-> "print", message |-> message,
             duration |-> FloatV(3)]>>, st)

handle_variable(params, idx, st) ==
    LET var_name == Get(params, "name", StrV("x"))
        value == Get(params, "value", IntV(0))
        st1 == [st EXCEPT !.variables = SetVar(st.variables, var_name, value)]
    IN Ok(Cat(Cat(Ln(st1, "# Set variable " \o Fmt(var_name)), NL),
              Ln(st1, Fmt(var_name) \o " = " \o Repr(value))),
          <<[step |-> idx, action |-> "variable", name |-> var_name,
             value |-> value, duration |-> FloatV(2)]>>, st1)

\* a Wait that waits 0 seconds unless told otherwise
handle_wait_DefaultZero(params, idx, st) ==
    LET seconds == Get(params, "seconds", IntV(0))
    IN Ok(Cat(Cat(Ln(st, "# Wait " \o Fmt(seconds) \o " seconds"), NL),
              Ln(st, "time.sleep(" \o Fmt(seconds) \o ")")),
          <<[step |-> idx, action |-> "wait", duration |-> seconds]>>, st)

handle_wait(params, idx, st) ==
    LET seconds == Get(params, "seconds", IntV(1))
    IN Ok(Cat(Cat(Ln(st, "# Wait " \o Fmt(seconds) \o " seconds"), NL),
              Ln(st, "time.sleep(" \o Fmt(seconds) \o ")")),
          <<[step |-> idx, action |-> "wait", duration |-> seconds]>>, st)

\* an unrecognized kind treated as an error
handle_unknown_Raises(block_type, params, idx, st) == Raise(st)

handle_unknown(block_type, params, idx, st) ==
    Ok(Cat(Cat(Ln(st, "# Unknown block type: " \o block_type), NL),
           Ln(st, "pass  # TODO: Implement " \o block_type)),
       <<[step |-> idx, action |-> "unknown", type |-> block_type,
          duration |-> FloatV(1)]>>, st)

(***************************************************************************)
(* Control-flow handlers and the dispatch. A body result is               *)
(* [lines, plan, st, err]: the code fragments and plan items collected so *)
(* far by the handler's for-loop over the body.                            *)
(***************************************************************************)
RECURSIVE process_block(_, _, _)
RECURSIVE LoopBody(_, _, _, _, _, _, _)
RECURSIVE NestedBody(_, _, _, _, _, _, _)

\* f"{idx}<tag>{body_idx}", body_idx counted from 0
ChildId(idx, tag, body_idx) == StrV(Fmt(idx) \o tag \o ToString(body_idx))

\* plan_copy of one item for one iteration of the enclosing loop
Replica(plan_item, idx, iteration, body_idx) ==
    LET step == StrV(Fmt(idx) \o "_iter" \o ToString(iteration) \o "_" \o ToString(body_idx))
    IN [k \in DOMAIN plan_item \cup {"step", "loop_iteration"} |->
            IF k = "step" THEN step
            ELSE IF k = "loop_iteration" THEN iteration
            ELSE plan_item[k]]

\* for plan_item in body_block_plan: ... body_plan.append(plan_copy)
ReplicaRow(body_block_plan, idx, iteration, body_idx) ==
    [j \in 1..Len(body_block_plan) |-> Replica(body_block_plan[j], idx, iteration, body_idx)]

\* for iteration in range(iterations): ..., from iteration on
RECURSIVE Replicate(_, _, _, _, _)
\* range(iterations + 1) in place of range(iterations)
Replicate_OneMore(body_block_plan, idx, iteration, iterations, body_idx) ==
    IF iteration > iterations THEN <<>>
    ELSE ReplicaRow(body_block_plan, idx, iteration, body_idx)
         \o Replicate(body_block_plan, idx, iteration + 1, iterations, body_idx)

Replicate(body_block_plan, idx, iteration, iterations, body_idx) ==
    IF iteration >= iterations THEN <<>>
    ELSE ReplicaRow(body_block_plan, idx, iteration, body_idx)
         \o Replicate(body_block_plan, idx, iteration + 1, iterations, body_idx)

BodyResult(lines, plan, st, err) == [lines |-> lines, plan |-> plan, st |-> st, err |-> err]

\* if body_code: code_lines.append(body_code)
AddCode(lines, code) == IF Truthy(code) THEN Append(lines, code) ELSE lines

\* the replicas of a child put in front of body_plan instead of appended to it
LoopChild_Prepend(body, k, idx, iterations, lines, plan, r) ==
    IF r.err THEN BodyResult(lines, plan, r.st, TRUE)
    ELSE IF r.plan = <<>>
         THEN LoopBody(body, k + 1, idx, iterations, r.st, AddCode(lines, r.code), plan)
    ELSE IF iterations.kind # "int"
         THEN BodyResult(AddCode(lines, r.code), plan, r.st, TRUE)
    ELSE LoopBody(body, k + 1, idx, iterations, r.st, AddCode(lines, r.code),
                  Replicate(r.plan, idx, 0, iterations.num, k - 1) \o plan)

\* one pass of the for-loop over the body in _handle_loop, r the child's result;
\* range(iterations) raises TypeError unless iterations is an int
LoopChild(body, k, idx, iterations, lines, plan, r) ==
    IF r.err THEN BodyResult(lines, plan, r.st, TRUE)
    ELSE IF r.plan = <<>>
         THEN LoopBody(body, k + 1, idx, iterations, r.st, AddCode(lines, r.code), plan)
    ELSE IF iterations.kind # "int"
         THEN BodyResult(AddCode(lines, r.code), plan, r.st, TRUE)
    ELSE LoopBody(body, k + 1, idx, iterations, r.st, AddCode(lines, r.code),
                  plan \o Replicate(r.plan, idx, 0, iterations.num, k - 1))

\* for body_idx, body_block in enumerate(body) of _handle_loop, from child k on
LoopBody(body, k, idx, iterations, st, lines, plan) ==
    IF k > Len(body) THEN BodyResult(lines, plan, st, FALSE)
    ELSE LoopChild(body, k, idx, iterations, lines, plan,
                   process_block(body[k], ChildId(idx, "_", k - 1), st))

\* one pass of the for-loop over if_body, else_body or a function body
NestedChild(body, k, idx, tag, lines, plan, r) ==
    IF r.err THEN BodyResult(lines, plan, r.st, TRUE)
    ELSE NestedBody(body, k + 1, idx, tag, r.st, AddCode(lines, r.code), plan \o r.plan)

\* the for-loop over if_body, else_body or a function body, from child k on
NestedBody(body, k, idx, tag, st, lines, plan) ==
    IF k > Len(body) THEN BodyResult(lines, plan, st, FALSE)
    ELSE NestedChild(body, k, idx, tag, lines, plan,
                     process_block(body[k], ChildId(idx, tag, k - 1), st))

\* a body entered without raising the depth
Enter_Stay(st) == st

\* self.indent_level += 1 / -= 1
Enter(st) == [st EXCEPT !.indent_level = @ + 1]
Leave(st) == [st EXCEPT !.indent_level = @ - 1]

\* code += "\n" + "\n".join(lines) if lines else code += f"{self._indent()}    pass"
WithBody(code, lines, st) ==
    IF lines # <<>> THEN Cat(code, Cat(NL, JoinNL(lines)))
    ELSE Cat(code, PassLine(st))

LoopHeader(iterations, st) ==
    Cat(Cat(Cat(Ln(st, "# Loop " \o Fmt(iterations) \o " times"), NL),
            Ln(st, "for i in range(" \o Fmt(iterations) \o "):")), NL)

\* _handle_loop after its for-loop, b the body result
LoopDone(iterations, st, b) ==
    IF b.err THEN Raise(b.st)
    ELSE Ok(WithBody(LoopHeader(iterations, st), b.lines, Leave(b.st)), b.plan, Leave(b.st))

handle_loop(params, idx, st) ==
    LoopDone(Get(params, "iterations", IntV(3)), st,
             LoopBody(Get(params, "body", <<>>), 1, idx, Get(params, "iterations", IntV(3)),
                      Enter(st), <<>>, <<>>))

IfHeader(condition, st) ==
    Cat(Cat(Cat(Ln(st, "# Conditional: if " \o Fmt(condition)), NL),
            Ln(st, "if " \o Fmt(condition) \o ":")), NL)

\* f"\n{self._indent()}else:\n"
ElseHeader(st) == Cat(Cat(NL, Ln(st, "else:")), NL)

ConditionalPlan(idx, condition, if_plan) ==
    <<[step |-> idx, action |-> "conditional", condition |-> condition,
       branches |-> if_plan]>>

\* _handle_conditional after the for-loop over else_body, b the body result
ElseDone(condition, idx, code, b) ==
    IF b.err THEN Raise(b.st)
    ELSE Ok(WithBody(code, b.lines, Leave(b.st)),
            ConditionalPlan(idx, condition, b.plan), Leave(b.st))

\* the else for-loop starting from an empty plan, so that the if plan is lost
ElsePart_DropIfPlan(condition, else_body, idx, code, if_plan, st) ==
    IF else_body = <<>> THEN Ok(code, ConditionalPlan(idx, condition, if_plan), st)
    ELSE ElseDone(condition, idx, Cat(code, ElseHeader(st)),
                  NestedBody(else_body, 1, idx, "_else_", Enter(st), <<>>, <<>>))

\* the else header emitted whether or not else_body is empty
ElsePart_AlwaysElse(condition, else_body, idx, code, if_plan, st) ==
    ElseDone(condition, idx, Cat(code, ElseHeader(st)),
             NestedBody(else_body, 1, idx, "_else_", Enter(st), <<>>, if_plan))

\* _handle_conditional from "if else_body:" on
ElsePart(condition, else_body, idx, code, if_plan, st) ==
    IF else_body = <<>> THEN Ok(code, ConditionalPlan(idx, condition, if_plan), st)
    ELSE ElseDone(condition, idx, Cat(code, ElseHeader(st)),
                  NestedBody(else_body, 1, idx, "_else_", Enter(st), <<>>, if_plan))

\* _handle_conditional after the for-loop over if_body, b the body result
IfDone(condition, else_body, idx, st, b) ==
    IF b.err THEN Raise(b.st)
    ELSE ElsePart(condition, else_body, idx,
                  WithBody(IfHeader(condition, st), b.lines, Leave(b.st)),
                  b.plan, Leave(b.st))

handle_conditional(params, idx, st) ==
    IfDone(Get(params, "condition", StrV("True")), Get(params, "else_body", <<>>), idx, st,
           NestedBody(Get(params, "if_body", <<>>), 1, idx, "_if_", Enter(st), <<>>, <<>>))

FuncHeader(func_name, func_params, st) ==
    Cat(Cat(Cat(Ln(st, "# Define function " \o Fmt(func_name)), NL),
            Ln(st, "def " \o Fmt(func_name) \o "(" \o JoinComma(func_params) \o "):")), NL)

\* a function whose body steps follow its own step in the enclosing plan
FuncDone_Flat(func_name, func_params, idx, st, b) ==
    IF b.err THEN Raise(b.st)
    ELSE Ok(WithBody(FuncHeader(func_name, func_params, st), b.lines, Leave(b.st)),
            <<[step |-> idx, action |-> "function_definition", name |-> func_name,
               parameters |-> func_params, body_plan |-> b.plan]>> \o b.plan, Leave(b.st))

\* _handle_function after its for-loop, b the body result
FuncDone(func_name, func_params, idx, st, b) ==
    IF b.err THEN Raise(b.st)
    ELSE Ok(WithBody(FuncHeader(func_name, func_params, st), b.lines, Leave(b.st)),
            <<[step |-> idx, action |-> "function_definition", name |-> func_name,
               parameters |-> func_params, body_plan |-> b.plan]>>, Leave(b.st))

handle_function(params, idx, st) ==
    FuncDone(Get(params, "name", StrV("my_function")), Get(params, "parameters", <<>>), idx, st,
             NestedBody(Get(params, "body", <<>>), 1, idx, "_func_", Enter(st), <<>>, <<>>))

process_block(block, idx, st) ==
    LET block_type == Get(block, "type", "")
        params == Get(block, "params", NoParams)
    IN CASE block_type = "move_forward" -> handle_move_forward(params, idx, st)
         [] block_type = "move_backward" -> handle_move_backward(params, idx, st)
         [] block_type = "turn_left" -> handle_turn_left(params, idx, st)
         [] block_type = "turn_right" -> handle_turn_right(params, idx, st)
         [] block_type = "jump" -> handle_jump(params, idx, st)
         [] block_type = "loop" -> handle_loop(params, idx, st)
         [] block_type = "conditional" -> handle_conditional(params, idx, st)
         [] block_type = "print" -> handle_print(params, idx, st)
         [] block_type = "variable" -> handle_variable(params, idx, st)
         [] block_type = "function" -> handle_function(params, idx, st)
         [] block_type = "wait" -> handle_wait(params, idx, st)
         [] block_type = "pick_object" -> handle_pick_object(params, idx, st)
         [] OTHER -> handle_unknown(block_type, params, idx, st)

(***************************************************************************)
(* Program assembly.                                                       *)
(***************************************************************************)
\* the list returned by _get_function_implementations (non-ASCII characters as ?)
get_function_implementations ==
    <<<<Piece(0, "# Character state")>>,
       <<Piece(0, "class Character:")>>,
       <<Piece(4, "def __init__(self):")>>,
       <<Piece(8, "self.x = 0")>>,
       <<Piece(8, "self.y = 0")>>,
       <<Piece(8, "self.angle = 0  # degrees (0 = facing right)")>>,
       <<Piece(8, "self.history = []")>>,
       <<Piece(8, "self.inventory = []  # For picked objects")>>,
       <<Piece(8, "")>>,
       <<Piece(4, "def log_action(self, action):")>>,
       <<Piece(8, "self.history.append(action)")>>,
       <<Piece(8, "print(f'  ??? {action}')")>>,
       <<Piece(0, "")>>,
       <<Piece(0, "character = Character()")>>,
       <<Piece(0, "")>>,
       <<Piece(0, "# Movement functions")>>,
       <<Piece(0, "def move_forward(distance):")>>,
       <<Piece(4, "\"\"\"Move the character forward in the current direction.\"\"\"")>>,
       <<Piece(4, "import math")>>,
       <<Piece(4, "radians = math.radians(character.angle)")>>,
       <<Piece(4, "character.x += distance * math.cos(radians)")>>,
       <<Piece(4, "character.y += distance * math.sin(radians)")>>,
       <<Piece(4, "character.log_action(f'Moved forward {distance} units to ({character.x:.2f}, {character.y:.2f})')")>>,
       <<Piece(0, "")>>,
       <<Piece(0, "def move_backward(distance):")>>,
       <<Piece(4, "\"\"\"Move the character backward.\"\"\"")>>,
       <<Piece(4, "move_forward(-distance)")>>,
       <<Piece(0, "")>>,
       <<Piece(0, "def turn_left(degrees):")>>,
       <<Piece(4, "\"\"\"Turn the character left (counter-clockwise).\"\"\"")>>,
       <<Piece(4, "character.angle = (character.angle + degrees) % 360")>>,
       <<Piece(4, "character.log_action(f'Turned left {degrees}?? (now facing {character.angle:.1f}??)')")>>,
       <<Piece(0, "")>>,
       <<Piece(0, "def turn_right(degrees):")>>,
       <<Piece(4, "\"\"\"Turn the character right (clockwise).\"\"\"")>>,
       <<Piece(4, "character.angle = (character.angle - degrees) % 360")>>,
       <<Piece(4, "character.log_action(f'Turned right {degrees}?? (now facing {character.angle:.1f}??)')")>>,
       <<Piece(0, "")>>,
       <<Piece(0, "def jump(height):")>>,
       <<Piece(4, "\"\"\"Make the character jump.\"\"\"")>>,
       <<Piece(4, "character.log_action(f'Jumped {height} units high')")>>,
       <<Piece(0, "")>>,
       <<Piece(0, "def pick_object(object_name):")>>,
       <<Piece(4, "\"\"\"Pick up an object and add it to inventory.\"\"\"")>>,
       <<Piece(4, "character.inventory.append(object_name)")>>,
       <<Piece(4, "character.log_action(f'Picked up {object_name} (inventory: {len(character.inventory)} items)')")>>,
       <<Piece(0, "")>>,
       <<Piece(0, "def show_final_position():")>>,
       <<Piece(4, "\"\"\"Display the final character position.\"\"\"")>>,
       <<Piece(4, "print(f'\\n??? Final Position: ({character.x:.2f}, {character.y:.2f})')")>>,
       <<Piece(4, "print(f'??? Final Angle: {character.angle:.1f}??')")>>,
       <<Piece(4, "print(f'???? Total Actions: {len(character.history)}')")>>,
       <<Piece(4, "print(f'???? Inventory: {character.inventory}')")>>,
       <<Piece(0, "")>>>>

\* code_lines before the first block is processed
HeaderLines(include_implementations) ==
    <<Str(0, "# Generated code from visual blocks"), Str(0, "import time")>>
    \o (IF include_implementations THEN <<EmptyText>> \o get_function_implementations
        ELSE <<>>)
    \o <<EmptyText, Str(0, "# Main program"), EmptyText>>

\* nothing added after the last block
FooterLines_Never(include_implementations) == <<>>

\* code_lines added after the last block
FooterLines(include_implementations) ==
    IF include_implementations
    THEN <<EmptyText, Str(0, "# Show results"), Str(0, "show_final_position()")>>
    ELSE <<>>

\* for idx, block in enumerate(blocks) of generate_from_blocks, from block k on
RECURSIVE TopLevel(_, _, _, _, _)
TopChild(blocks, k, code_lines, execution_plan, r) ==
    IF r.err THEN BodyResult(code_lines, execution_plan, r.st, TRUE)
    ELSE TopLevel(blocks, k + 1, r.st, AddCode(code_lines, r.code), execution_plan \o r.plan)

\* the blocks numbered from 1
TopLevel_FromOne(blocks, k, st, code_lines, execution_plan) ==
    IF k > Len(blocks) THEN BodyResult(code_lines, execution_plan, st, FALSE)
    ELSE TopChild(blocks, k, code_lines, execution_plan,
                  process_block(blocks[k], IntV(k), st))

TopLevel(blocks, k, st, code_lines, execution_plan) ==
    IF k > Len(blocks) THEN BodyResult(code_lines, execution_plan, st, FALSE)
    ELSE TopChild(blocks, k, code_lines, execution_plan,
                  process_block(blocks[k], IntV(k - 1), st))

\* generate_from_blocks after its for-loop, t the result of the loop
Assemble(include_implementations, t) ==
    IF t.err THEN Raise(t.st)
    ELSE Ok(JoinNL(t.lines \o FooterLines(include_implementations)), t.plan, t.st)

generate_from_blocks(st, blocks, include_implementations) ==
    Assemble(include_implementations,
             TopLevel(blocks, 1, reset(st), HeaderLines(include_implementations), <<>>))

\* code if code else "# No code generated"
SingleCode(r) ==
    IF r.err THEN r
    ELSE Ok(IF Truthy(r.code) THEN r.code ELSE Str(0, "# No code generated"), <<>>, r.st)

generate_code_for_single_command(st, block) ==
    SingleCode(process_block(block, IntV(0), reset(st)))

generate_live_code_preview(st, blocks) == generate_from_blocks(st, blocks, FALSE)

(***************************************************************************)
(* Block trees handed to the compiler.                                     *)
(***************************************************************************)
Block(type, params) == [type |-> type, params |-> params]

MoveForward3 == Block("move_forward", [distance |-> IntV(3)])
TurnRight90 == Block("turn_right", [degrees |-> IntV(90)])
PrintA == Block("print", [message |-> StrV("A")])
VarX5 == Block("variable", [name |-> StrV("x"), value |-> IntV(5)])
Fly == Block("fly", NoParams)

LeafBlocks ==
    { MoveForward3, TurnRight90, PrintA, VarX5, Fly,
      Block("move_backward", [distance |-> IntV(2)]),
      Block("turn_left", [degrees |-> IntV(45)]),
      Block("jump", [height |-> IntV(2)]),
      Block("pick_object", [object_name |-> StrV("coin")]),
      Block("wait", [seconds |-> IntV(2)]) }

LeafTypes == { "move_forward", "move_backward", "turn_left", "turn_right", "jump",
               "pick_object", "print", "variable", "wait" }
ControlTypes == { "loop", "conditional", "function" }

\* leaves used inside bodies
BodyLeaves == { TurnRight90, PrintA, VarX5 }

\* sequences over S of length 0..n
SeqsUpTo(S, n) == UNION { [1..k -> S] : k \in 0..n }

LeafBodies == SeqsUpTo(BodyLeaves, MaxBody)
ShortBodies == { <<>>, <<PrintA>> }

\* iterations: the integers 0..MaxIter and a value that is no integer
Iters == { IntV(n) : n \in 0..MaxIter } \cup { StrV("two") }

Loop(iterations, body) == Block("loop", [iterations |-> iterations, body |-> body])
Cond(condition, if_body, else_body) ==
    Block("conditional",
          [condition |-> StrV(condition), if_body |-> if_body, else_body |-> else_body])
Func(name, parameters, body) ==
    Block("function", [name |-> StrV(name), parameters |-> parameters, body |-> body])

\* control blocks whose bodies hold leaves only
FlatControl ==
    { Loop(it, b) : it \in Iters, b \in LeafBodies }
    \cup { Cond("x>5", b, e) : b \in LeafBodies, e \in ShortBodies \cup {<<TurnRight90>>} }
    \cup { Func("f", <<"a", "b">>, b) : b \in LeafBodies }

\* the control blocks that are nested into others
InnerControl ==
    { Loop(it, b) : it \in Iters, b \in ShortBodies }
    \cup { Cond("x>5", b, e) : b \in ShortBodies, e \in ShortBodies }
    \cup { Func("g", <<>>, b) : b \in ShortBodies }

Wrap(c) ==
    { Loop(it, <<c>>) : it \in Iters }
    \cup { Loop(IntV(2), <<TurnRight90, c>>), Cond("y", <<c>>, <<>>), Cond("y", <<>>, <<c>>),
           Cond("y", <<c>>, <<c>>), Func("f", <<"a">>, <<c, PrintA>>) }

NestedControl == UNION { Wrap(c) : c \in InnerControl }

\* three levels of nesting
DeepControl ==
    UNION { Wrap(Loop(IntV(2), <<c>>)) \cup Wrap(Cond("z", <<>>, <<c>>))
            : c \in { Loop(IntV(2), <<PrintA>>), Loop(StrV("two"), <<PrintA>>),
                      Cond("x>5", <<>>, <<>>), Func("g", <<>>, <<PrintA>>) } }

AllBlocks == LeafBlocks \cup FlatControl \cup NestedControl \cup DeepControl

\* blocks that appear in sequences of two
PairBlocks == { MoveForward3, VarX5, Loop(IntV(2), <<TurnRight90>>),
                Loop(StrV("two"), <<PrintA>>), Cond("x>5", <<PrintA>>, <<>>),
                Func("f", <<"a">>, <<PrintA>>) }

BlockSeqs == { <<>> } \cup { <<b>> : b \in AllBlocks }
             \cup { <<a, b>> : a \in PairBlocks, b \in PairBlocks }

\* the requests: every sequence without the runtime prelude, some with it
Requests ==
    { [blocks |-> bs, impl |-> FALSE, live |-> TRUE] : bs \in BlockSeqs }
    \cup { [blocks |-> bs, impl |-> TRUE, live |-> TRUE]
           : bs \in { <<>> } \cup { <<b>> : b \in PairBlocks } }

(***************************************************************************)
(* Block records of other shapes: parameters left out, the params dict     *)
(* left out, the kind left out, kinds that are not recognized in bodies    *)
(* and in sequences, and leaves with other parameter values.               *)
(***************************************************************************)
\* a block record without "params"
Bare(type) == [type |-> type]

\* the records r restricted to each proper subset of its keys
ProperParts(r) == { [k \in ks |-> r[k]] : ks \in (SUBSET DOMAIN r) \ {DOMAIN r} }

SparseLeaves ==
    { Bare(t) : t \in LeafTypes } \cup { Block(t, NoParams) : t \in LeafTypes }
    \cup { Block("variable", ps) : ps \in ProperParts([name |-> StrV("y"), value |-> IntV(5)]) }

SparseControl ==
    { Bare(t) : t \in ControlTypes }
    \cup { Block("loop", ps)
           : ps \in ProperParts([iterations |-> IntV(2), body |-> <<PrintA, Bare("jump")>>]) }
    \cup { Block("conditional", ps)
           : ps \in ProperParts([condition |-> StrV("x>5"), if_body |-> <<PrintA>>,
                                 else_body |-> <<Bare("turn_right")>>]) }
    \cup { Block("function", ps)
           : ps \in ProperParts([name |-> StrV("f"), parameters |-> <<"a">>,
                                 body |-> <<Bare("wait")>>]) }

\* sparse blocks in the bodies of other blocks
SparseNested ==
    { Loop(IntV(2), <<c>>) : c \in { Bare("wait"), Bare("loop"), Block("conditional", NoParams) } }
    \cup { Cond("y", <<Bare("loop")>>, <<Block("loop", [body |-> <<Bare("move_forward")>>])>>),
           Func("f", <<>>, <<Bare("conditional"), Bare("pick_object")>>) }

SparseBlocks == SparseLeaves \cup SparseControl \cup SparseNested

\* records without "type"
NoBlock == [k \in {} |-> 0]
Kindless == { NoBlock, [params |-> [distance |-> IntV(3)]], [params |-> NoParams] }

KindlessBlocks ==
    Kindless
    \cup { Loop(IntV(2), <<MoveForward3, [params |-> NoParams]>>),
           Cond("y", <<NoBlock>>, <<>>), Func("f", <<>>, <<NoBlock>>) }

\* blocks of kinds that are not recognized
Unknowns == { Fly, Block("teleport", [x |-> IntV(1)]), Bare("Move_Forward") }

UnknownNested ==
    { Loop(IntV(n), <<PrintA, Fly>>) : n \in 0..MaxIter }
    \cup { Cond("y", <<Fly>>, <<Bare("Move_Forward")>>), Cond("y", <<>>, <<Fly, PrintA>>),
           Func("f", <<>>, <<Fly, Fly>>), Loop(IntV(2), <<Cond("y", <<Fly>>, <<>>)>>),
           Func("f", <<>>, <<Loop(IntV(1), <<Fly>>)>>) }

\* each leaf kind with two values of each parameter
LeafVariants ==
    { Block(t, [distance |-> IntV(n)]) : t \in {"move_forward", "move_backward"}, n \in {2, 3} }
    \cup { Block(t, [degrees |-> IntV(n)]) : t \in {"turn_left", "turn_right"}, n \in {45, 90} }
    \cup { Block("jump", [height |-> IntV(n)]) : n \in {1, 2} }
    \cup { Block("pick_object", [object_name |-> StrV(o)]) : o \in {"coin", "key"} }
    \cup { Block("print", [message |-> StrV(m)]) : m \in {"A", "B"} }
    \cup { Block("variable", [name |-> StrV(v), value |-> IntV(n)]) : v \in {"x", "y"}, n \in {0, 5} }
    \cup { Block("wait", [seconds |-> IntV(n)]) : n \in {1, 2} }

RecordSeqs ==
    { <<b>> : b \in SparseBlocks \cup KindlessBlocks \cup Unknowns \cup UnknownNested
                    \cup LeafVariants }
    \cup { <<a, b>> : a \in Unknowns \cup {MoveForward3}, b \in {Fly, PrintA, NoBlock} }
    \cup { <<MoveForward3, Fly, PrintA>>, <<NoBlock, Fly, VarX5>> }

RecordRequests ==
    { [blocks |-> bs, impl |-> FALSE, live |-> TRUE] : bs \in RecordSeqs }
    \cup { [blocks |-> <<b>>, impl |-> TRUE, live |-> TRUE]
           : b \in { Bare("loop"), Fly, NoBlock, Block("wait", NoParams) } }

(***************************************************************************)
(* The compiler and its callers: a caller holds a block sequence and calls *)
(* generate_from_blocks or generate_code_for_single_command on either of   *)
(* two CodeGenerator instances: instance 1 lives on and is reused from one *)
(* request to the next (as GameplaySession.generator is), instance 2 is    *)
(* constructed for the request (as api_server.generate_code does).         *)
(***************************************************************************)
Instances == {1, 2}
NoRequest == [blocks |-> <<>>, impl |-> FALSE, live |-> FALSE]
NoOut == [op |-> "none"]

InitCompiler ==
    /\ gen = [i \in Instances |-> NewGenerator]
    /\ request = NoRequest
    /\ out = [i \in Instances |-> NoOut]

NewRequest(req) ==
    /\ ~request.live
    /\ request' = req
    /\ gen' = [gen EXCEPT ![2] = NewGenerator]
    /\ UNCHANGED out

\* instance i has returned r (or raised) from call op
Returned(i, op, r) ==
    /\ gen' = [gen EXCEPT ![i] = r.st]
    /\ out' = [out EXCEPT ![i] = [op |-> op, pre |-> gen[i], err |-> r.err,
                                  code |-> r.code, plan |-> r.plan]]

GenerateFromBlocks(i) ==
    /\ request.live
    /\ Returned(i, "generate", generate_from_blocks(gen[i], request.blocks, request.impl))
    /\ UNCHANGED request

GenerateCodeForSingleCommand(i) ==
    /\ request.live
    /\ Len(request.blocks) = 1
    /\ Returned(i, "single", generate_code_for_single_command(gen[i], request.blocks[1]))
    /\ UNCHANGED request

\* what api_server.generate_code answers to a request with these blocks
Answer(success, status, r) ==
    [success |-> success, status |-> status, err |-> r.err, code |-> r.code,
     plan |-> r.plan, st |-> r.st]

Generation(r) == IF r.err THEN Answer(FALSE, 500, r) ELSE Answer(TRUE, 200, r)

generate_code(blocks) ==
    IF blocks = <<>>
    THEN [success |-> FALSE, status |-> 400, error |-> "No blocks provided"]
    ELSE Generation(generate_from_blocks(NewGenerator, blocks, FALSE))

\* POST /generate-code with the blocks of the request
GenerateCode ==
    /\ request.live
    /\ out' = [out EXCEPT ![2] = [op |-> "api", response |-> generate_code(request.blocks)]]
    /\ gen' = [gen EXCEPT ![2] = IF request.blocks = <<>> THEN @
                                 ELSE generate_code(request.blocks).st]
    /\ UNCHANGED request

Done ==
    /\ request.live
    /\ request' = NoRequest
    /\ out' = [i \in Instances |-> NoOut]
    /\ gen' = [gen EXCEPT ![2] = NewGenerator]

(***************************************************************************)
(* CommandPalette: the registry of commands and its level gate.            *)
(***************************************************************************)
LastLevel == 4

\* the keys of self.commands, in insertion order
CommandIds ==
    <<"move", "move_back", "turn_left", "turn_right", "jump", "pick_object", "loop",
      "conditional", "print", "wait">>

Command(type, label, category, default_params, available_levels) ==
    [type |-> type, label |-> label, category |-> category,
     default_params |-> default_params, available_levels |-> available_levels]

\* _initialize_commands (icon and description left out)
commands ==
    [id \in { CommandIds[k] : k \in 1..Len(CommandIds) } |->
        CASE id = "move" ->
                Command("move_forward", "Move Forward", "movement",
                        [distance |-> IntV(1)], {1, 2, 3, 4})
          [] id = "move_back" ->
                Command("move_backward", "Move Backward", "movement",
                        [distance |-> IntV(1)], {1, 2, 3, 4})
          [] id = "turn_left" ->
                Command("turn_left", "Turn Left", "movement",
                        [degrees |-> IntV(90)], {1, 2, 3, 4})
          [] id = "turn_right" ->
                Command("turn_right", "Turn Right", "movement",
                        [degrees |-> IntV(90)], {1, 2, 3, 4})
          [] id = "jump" ->
                Command("jump", "Jump", "movement", [height |-> IntV(1)], {1, 2, 3, 4})
          [] id = "pick_object" ->
                Command("pick_object", "Pick Object", "action",
                        [object_name |-> StrV("item")], {1, 2, 3, 4})
          [] id = "loop" ->
                Command("loop", "Loop", "control",
                        [iterations |-> IntV(3), body |-> <<>>], {4})
          [] id = "conditional" ->
                Command("conditional", "If/Else", "control",
                        [condition |-> StrV("True"), if_body |-> <<>>, else_body |-> <<>>],
                        {3, 4})
          [] id = "print" ->
                Command("print", "Print", "utility", [message |-> StrV("Hello")],
                        {1, 2, 3, 4})
          [] id = "wait" ->
                Command("wait", "Wait", "utility", [seconds |-> IntV(1)], {2, 3, 4})]

\* a command id that is not in the registry
NoSuchCommand == "fly"

\* the command ids a caller asks about
AskedIds == DOMAIN commands \cup {NoSuchCommand}

\* the levels a caller sets
Levels == 0..(LastLevel + ExtraLevels)

\* the command is kept by "if filter_by_level and level not in available_levels: continue"
Listed(level, filter_by_level, id) ==
    ~(filter_by_level /\ level \notin commands[id].available_levels)

\* a command that is available whatever the level
is_command_available_AnyLevel(level, command_id) == command_id \in DOMAIN commands

is_command_available(level, command_id) ==
    IF command_id \notin DOMAIN commands THEN FALSE
    ELSE level \in commands[command_id].available_levels

\* {"id": cmd_id, **cmd_data}
Entry(id) ==
    [id |-> id, type |-> commands[id].type, label |-> commands[id].label,
     category |-> commands[id].category, default_params |-> commands[id].default_params,
     available_levels |-> commands[id].available_levels]

get_all_commands(level, filter_by_level) ==
    LET kept == SelectSeq(CommandIds, LAMBDA id : Listed(level, filter_by_level, id))
    IN [k \in 1..Len(kept) |-> Entry(kept[k])]

get_commands_by_category(level, filter_by_level) ==
    LET all == get_all_commands(level, filter_by_level)
    IN [category \in { all[k].category : k \in 1..Len(all) } |->
            SelectSeq(all, LAMBDA e : e.category = category)]

(***************************************************************************)
(* A CommandPalette and its callers.                                       *)
(***************************************************************************)
InitPalette ==
    /\ palette = [current_level |-> 1]
    /\ reply = [op |-> "none"]

PaletteSetLevel(level) ==
    /\ palette' = [palette EXCEPT !.current_level = level]
    /\ UNCHANGED reply

IsCommandAvailable(command_id) ==
    /\ reply' = [op |-> "is_command_available", level |-> palette.current_level,
                 id |-> command_id,
                 result |-> is_command_available(palette.current_level, command_id)]
    /\ UNCHANGED palette

GetAllCommands(filter_by_level) ==
    /\ reply' = [op |-> "get_all_commands", level |-> palette.current_level,
                 filter |-> filter_by_level,
                 result |-> get_all_commands(palette.current_level, filter_by_level)]
    /\ UNCHANGED palette

GetCommandsByCategory(filter_by_level) ==
    /\ reply' = [op |-> "get_commands_by_category", level |-> palette.current_level,
                 filter |-> filter_by_level,
                 result |-> get_commands_by_category(palette.current_level, filter_by_level)]
    /\ UNCHANGED palette

(***************************************************************************)
(* VisualWorkflow: the sequence of the selected commands.                  *)
(***************************************************************************)
\* self.sequence.append(command)
add_command(seq, command) == Append(seq, command)

\* if 0 <= index < len(self.sequence): self.sequence.pop(index)
remove_command(seq, index) ==
    IF 0 <= index /\ index < Len(seq)
    THEN SubSeq(seq, 1, index) \o SubSeq(seq, index + 2, Len(seq))
    ELSE seq

\* list.insert: an index past either end is taken as that end
Clamp(index, n) ==
    IF index > n THEN n ELSE IF index >= 0 THEN index ELSE IF n + index >= 0 THEN n + index ELSE 0

\* self.sequence.insert(index, command)
insert_command(seq, index, command) ==
    SubSeq(seq, 1, Clamp(index, Len(seq))) \o <<command>>
    \o SubSeq(seq, Clamp(index, Len(seq)) + 1, Len(seq))

\* the commands at the two indices exchanged
move_command_Swap(seq, from_index, to_index) ==
    IF 0 <= from_index /\ from_index < Len(seq) /\ 0 <= to_index /\ to_index < Len(seq)
    THEN [seq EXCEPT ![from_index + 1] = seq[to_index + 1], ![to_index + 1] = seq[from_index + 1]]
    ELSE seq

\* command = self.sequence.pop(from_index); self.sequence.insert(to_index, command)
move_command(seq, from_index, to_index) ==
    IF 0 <= from_index /\ from_index < Len(seq) /\ 0 <= to_index /\ to_index < Len(seq)
    THEN insert_command(remove_command(seq, from_index), to_index, seq[from_index + 1])
    ELSE seq

\* if 0 <= index < len(self.sequence): self.sequence[index] = command
update_command(seq, index, command) ==
    IF 0 <= index /\ index < Len(seq) THEN [seq EXCEPT ![index + 1] = command] ELSE seq

\* self.sequence.clear()
clear(seq) == <<>>

\* the longest sequence the workflow is given
MaxFlow == 3

FlowCommands == {MoveForward3, TurnRight90, PrintA}

\* indices of both signs, within and past the sequence
FlowIndices == (0 - 1)..MaxFlow

AddCommand(command) ==
    /\ Len(flow) < MaxFlow
    /\ flow' = add_command(flow, command)
    /\ edit' = [op |-> "add_command", command |-> command]

InsertCommand(index, command) ==
    /\ Len(flow) < MaxFlow
    /\ flow' = insert_command(flow, index, command)
    /\ edit' = [op |-> "insert_command", index |-> index, command |-> command]

RemoveCommand(index) ==
    /\ flow' = remove_command(flow, index)
    /\ edit' = [op |-> "remove_command", index |-> index]

MoveCommand(from_index, to_index) ==
    /\ flow' = move_command(flow, from_index, to_index)
    /\ edit' = [op |-> "move_command", from_index |-> from_index, to_index |-> to_index]

UpdateCommand(index, command) ==
    /\ flow' = update_command(flow, index, command)
    /\ edit' = [op |-> "update_command", index |-> index, command |-> command]

ClearWorkflow ==
    /\ flow' = clear(flow)
    /\ edit' = [op |-> "clear"]

InitWorkflow ==
    /\ flow = <<>>
    /\ edit = [op |-> "none"]

(***************************************************************************)
(* GameplaySession. A call returns [sequence, code_cache, sgen, ret]: the  *)
(* fields it leaves behind and its return value; ret.raised tells that an  *)
(* exception left the call instead.                                        *)
(***************************************************************************)
Session(seq, cache, g, r) == [sequence |-> seq, code_cache |-> cache, sgen |-> g, ret |-> r]

Raised(op) == [op |-> op, raised |-> TRUE]

\* params = cmd_info["default_params"].copy(); if custom_params: params.update(custom_params)
Merge(default_params, custom_params) ==
    [k \in DOMAIN default_params \cup DOMAIN custom_params |->
        IF k \in DOMAIN custom_params THEN custom_params[k] ELSE default_params[k]]

\* the failure that does not tell the level
Refusal_NoLevel(level, command_id) ==
    [op |-> "add", raised |-> FALSE, success |-> FALSE,
     error |-> "Command '" \o command_id \o "' is not available"]

\* the result of add_command_from_palette for a command that is not available
Refusal(level, command_id) ==
    [op |-> "add", raised |-> FALSE, success |-> FALSE,
     error |-> "Command '" \o command_id \o "' is not available at Level " \o ToString(level)]

\* update_code_display at the end of add_command_from_palette, r its generate_from_blocks
AddShown(seq, cache, command_id, block, single, r) ==
    IF r.err THEN Session(seq, cache, r.st, Raised("add"))
    ELSE Session(seq, r.code, r.st,
                 [op |-> "add", raised |-> FALSE, success |-> TRUE, command_id |-> command_id,
                  command_label |-> commands[command_id].label, index |-> Len(seq) - 1,
                  block |-> block, code |-> r.code, single_command_code |-> single.code])

\* add_command_from_palette after generate_code_for_single_command returned single
AddGenerated(seq, cache, command_id, block, single) ==
    IF single.err THEN Session(seq, cache, single.st, Raised("add"))
    ELSE AddShown(seq, cache, command_id, block, single,
                  generate_live_code_preview(single.st, seq))

\* add_command_from_palette from "idx = self.workflow.add_command(block)" on
AddBlock(seq, cache, g, command_id, block) ==
    AddGenerated(add_command(seq, block), cache, command_id, block,
                 generate_code_for_single_command(g, block))

\* {"error": f"Command '{command_id}' not found in palette", "success": False}
NotFound(command_id) ==
    [op |-> "add", raised |-> FALSE, success |-> FALSE,
     error |-> "Command '" \o command_id \o "' not found in palette"]

\* the registry looked up before the level is checked
add_command_from_palette_LookupFirst(level, plevel, seq, cache, g, command_id, custom_params) ==
    IF command_id \notin DOMAIN commands
    THEN Session(seq, cache, g, NotFound(command_id))
    ELSE IF ~is_command_available(plevel, command_id)
    THEN Session(seq, cache, g, Refusal(level, command_id))
    ELSE AddBlock(seq, cache, g, command_id,
                  Block(commands[command_id].type,
                        Merge(commands[command_id].default_params, custom_params)))

add_command_from_palette(level, plevel, seq, cache, g, command_id, custom_params) ==
    IF ~is_command_available(plevel, command_id)
    THEN Session(seq, cache, g, Refusal(level, command_id))
    ELSE IF command_id \notin DOMAIN commands
    THEN Session(seq, cache, g, NotFound(command_id))
    ELSE AddBlock(seq, cache, g, command_id,
                  Block(commands[command_id].type,
                        Merge(commands[command_id].default_params, custom_params)))

\* remove_command_from_workflow after update_code_display, r its generate_from_blocks
RemoveShown(seq, cache, r) ==
    IF r.err THEN Session(seq, cache, r.st, Raised("remove"))
    ELSE Session(seq, r.code, r.st,
                 [op |-> "remove", raised |-> FALSE, success |-> TRUE, code |-> r.code])

remove_command_from_workflow(seq, cache, g, index) ==
    RemoveShown(remove_command(seq, index), cache,
                generate_live_code_preview(g, remove_command(seq, index)))

\* for cmd in session_data["workflow"]: self.workflow.add_command(cmd)
RECURSIVE AddAll(_, _)
AddAll(seq, cmds) ==
    IF cmds = <<>> THEN seq ELSE AddAll(add_command(seq, Head(cmds)), Tail(cmds))

\* self.workflow.clear() and the import loop of import_session
Imported(session_data) ==
    IF "workflow" \in DOMAIN session_data THEN AddAll(<<>>, session_data.workflow) ELSE <<>>

\* import_session after update_code_display, r its generate_from_blocks
ImportShown(seq, cache, r) ==
    IF r.err THEN Session(seq, cache, r.st, Raised("import"))
    ELSE Session(seq, r.code, r.st, [op |-> "import", raised |-> FALSE])

import_session(cache, g, session_data) ==
    ImportShown(Imported(session_data), cache,
                generate_live_code_preview(g, Imported(session_data)))

\* the dict returned by export_session (visual_workflow left out)
export_session(seq, cache) ==
    [op |-> "export", raised |-> FALSE, workflow |-> seq,
     code |-> [template_based |-> cache, active_mode |-> "template_based"]]

\* the levels and the value a call of get_available_commands_for_level leaves behind
Levelled(level, plevel, r) == [current_level |-> level, pal_level |-> plevel, ret |-> r]

Available(asked, cmds) ==
    [op |-> "available", raised |-> FALSE, asked |-> asked, commands |-> cmds]

\* the requested level left in place after the listing
get_available_commands_for_level_NoRestore(level, plevel, given, asked) ==
    IF given /\ asked # level
    THEN Levelled(asked, asked, Available(asked, get_all_commands(asked, TRUE)))
    ELSE Levelled(level, plevel, Available(level, get_all_commands(plevel, TRUE)))

\* given: the level argument is not None
get_available_commands_for_level(level, plevel, given, asked) ==
    IF given /\ asked # level
    THEN Levelled(level, level, Available(asked, get_all_commands(asked, TRUE)))
    ELSE Levelled(level, plevel, Available(level, get_all_commands(plevel, TRUE)))

\* session_data a caller imports, besides what export_session gave it
ImportData == { NoBlock, [workflow |-> <<Loop(IntV(2), <<PrintA>>), MoveForward3>>] }

\* what the callers of a session ask for: a command id and custom_params (NoParams: none)
Ask(command_id, custom_params) == [id |-> command_id, custom |-> custom_params]

SessionAsks ==
    { Ask(id, NoParams)
      : id \in {"move", "wait", "conditional", "loop", NoSuchCommand} }
    \cup { Ask("move", [distance |-> IntV(3)]),
           Ask("loop", [iterations |-> IntV(2), body |-> <<PrintA>>]),
           Ask("loop", [iterations |-> StrV("two"), body |-> <<PrintA>>]) }

\* the levels and the commands of a session that is also exported and imported
EditingLevels == {1, LastLevel}

EditingAsks ==
    { Ask("move", NoParams), Ask("loop", NoParams),
      Ask("loop", [iterations |-> StrV("two"), body |-> <<PrintA>>]) }

\* the indices a caller removes at: the places of the workflow and one on each side
RemoveIndices == (0 - 1)..MaxSeq

\* the session takes the fields a call has left behind
Left(s) ==
    /\ sequence' = s.sequence
    /\ code_cache' = s.code_cache
    /\ sgen' = s.sgen
    /\ ret' = s.ret

SetLevel(level) ==
    /\ current_level' = level
    /\ pal_level' = level
    /\ ret' = [op |-> "set_level", raised |-> FALSE]
    /\ UNCHANGED <<sequence, code_cache, sgen>>

AddCommandFromPalette(command_id, custom_params) ==
    /\ Len(sequence) < MaxSeq \/ ~is_command_available(pal_level, command_id)
    /\ Left(add_command_from_palette(current_level, pal_level, sequence, code_cache, sgen,
                                     command_id, custom_params))
    /\ UNCHANGED <<current_level, pal_level>>

RemoveCommandFromWorkflow(index) ==
    /\ Left(remove_command_from_workflow(sequence, code_cache, sgen, index))
    /\ UNCHANGED <<current_level, pal_level>>

ImportSession(session_data) ==
    /\ Left(import_session(code_cache, sgen, session_data))
    /\ UNCHANGED <<current_level, pal_level>>

\* the caller imports what the last call of export_session returned
ImportExported ==
    /\ ret.op = "export"
    /\ Left(import_session(code_cache, sgen, ret))
    /\ UNCHANGED <<current_level, pal_level>>

ExportSession ==
    /\ ret' = export_session(sequence, code_cache)
    /\ UNCHANGED <<current_level, pal_level, sequence, code_cache, sgen>>

GetAvailableCommandsForLevel(given, asked) ==
    /\ current_level' =
          get_available_commands_for_level(current_level, pal_level, given, asked).current_level
    /\ pal_level' =
          get_available_commands_for_level(current_level, pal_level, given, asked).pal_level
    /\ ret' = get_available_commands_for_level(current_level, pal_level, given, asked).ret
    /\ UNCHANGED <<sequence, code_cache, sgen>>

\* GameplaySession(current_level=level) constructed by a caller that holds an export
NewSession(level) ==
    /\ ret.op = "export"
    /\ current_level' = level
    /\ pal_level' = level
    /\ sequence' = <<>>
    /\ code_cache' = EmptyText
    /\ sgen' = NewGenerator
    /\ UNCHANGED ret

InitSession ==
    /\ current_level = 1
    /\ pal_level = 1
    /\ sequence = <<>>
    /\ code_cache = EmptyText
    /\ sgen = NewGenerator
    /\ ret = [op |-> "none", raised |-> FALSE]

(***************************************************************************)
(* generate_from_blocks statement by statement, for calls that run in      *)
(* several threads. The statements that read or write a field of the       *)
(* CodeGenerator are the steps: self.indent_level = 0 and                  *)
(* self.variables = {} of reset, each self._indent() of an f-string (the   *)
(* line it starts is kept with the indentation read), the load and the     *)
(* store of self.indent_level += 1 / -= 1, and self.variables[name] =      *)
(* value. Which statements a call runs depends on its blocks only. Plan    *)
(* steps are built from the block and its path id alone.                   *)
(***************************************************************************)
Stmt(kind, extra, txt, name, value) ==
    [kind |-> kind, extra |-> extra, txt |-> txt, name |-> name, value |-> value]

Plain(kind) == Stmt(kind, 0, "", "", IntV(0))

\* the f-strings of a text rendered at depth 0: one _indent() call for each line
LineStmts(text) ==
    LET shown == SelectSeq(text, LAMBDA piece : piece.txt # "")
    IN [k \in 1..Len(shown) |-> Stmt("line", shown[k].ind, shown[k].txt, "", IntV(0))]

\* self.indent_level += 1 and self.indent_level -= 1
IncStmts == <<Plain("load"), Plain("inc")>>
DecStmts == <<Plain("load"), Plain("dec")>>

\* code += f"{self._indent()}    pass" unless the body gave lines
PassStmts(body) == IF body = <<>> THEN LineStmts(PassLine(NewGenerator)) ELSE <<>>

RECURSIVE SeqStmts(_)

\* the statements of _handle_variable and of the other leaf handlers
LeafStmts(b) ==
    (IF Get(b, "type", "") = "variable"
     THEN <<Stmt("set", 0, "", Get(Get(b, "params", NoParams), "name", StrV("x")).str,
                 Get(Get(b, "params", NoParams), "value", IntV(0)))>>
     ELSE <<>>)
    \o LineStmts(process_block(b, IntV(0), NewGenerator).code)

\* the statements of _handle_loop and _handle_function around their body
BodyStmts(header, body) ==
    LineStmts(header) \o IncStmts \o SeqStmts(body) \o DecStmts \o PassStmts(body)

\* the statements of _handle_conditional from "if else_body:" on
ElseStmts(else_body) ==
    IF else_body = <<>> THEN <<>>
    ELSE LineStmts(ElseHeader(NewGenerator)) \o IncStmts \o SeqStmts(else_body) \o DecStmts
         \o PassStmts(else_body)

\* the statements of _process_block
BlockStmts(b, params) ==
    CASE Get(b, "type", "") = "loop" ->
            BodyStmts(LoopHeader(Get(params, "iterations", IntV(3)), NewGenerator),
                      Get(params, "body", <<>>))
      [] Get(b, "type", "") = "function" ->
            BodyStmts(FuncHeader(Get(params, "name", StrV("my_function")),
                                 Get(params, "parameters", <<>>), NewGenerator),
                      Get(params, "body", <<>>))
      [] Get(b, "type", "") = "conditional" ->
            BodyStmts(IfHeader(Get(params, "condition", StrV("True")), NewGenerator),
                      Get(params, "if_body", <<>>))
            \o ElseStmts(Get(params, "else_body", <<>>))
      [] OTHER -> LeafStmts(b)

\* the statements of a for-loop over blocks
SeqStmts(blocks) ==
    IF blocks = <<>> THEN <<>>
    ELSE BlockStmts(Head(blocks), Get(Head(blocks), "params", NoParams))
         \o SeqStmts(Tail(blocks))

\* the statements of generate_from_blocks
Stmts(blocks) == <<Plain("zero"), Plain("clear")>> \o SeqStmts(blocks) \o <<Plain("return")>>

Threads == {1, 2}

\* the block sequences of the concurrent requests
Jobs ==
    { <<Loop(IntV(2), <<PrintA>>)>>, <<MoveForward3, VarX5>>,
      <<Cond("x>5", <<VarX5>>, <<TurnRight90>>)>>, <<Func("f", <<"a">>, <<>>), PrintA>> }

\* the block sequences of the calls on a shared instance
SharedJobs == { <<Loop(IntV(2), <<PrintA>>), MoveForward3>>, <<VarX5, TurnRight90>> }

Idle == [status |-> "idle", job |-> <<>>, pc |-> 0, lines |-> <<>>, plan |-> <<>>,
         tmp |-> 0, g |-> 1, mixed |-> FALSE]

Running(t) == thr[t].status = "running"

\* the statement thread t is about to run
Current(t) == Stmts(thr[t].job)[thr[t].pc]

At(t, kind) == Running(t) /\ Current(t).kind = kind

\* thread t moves on to its next statement
Advance(t) == thr' = [thr EXCEPT ![t].pc = @ + 1]

\* every request on the one instance of the process
InstanceOf_Singleton(t) == 1

\* generator = CodeGenerator(): the instance of the request of thread t
InstanceOf(t) == t

\* thread t takes a request and calls generate_from_blocks on instance g
Begin(t, job, g) ==
    /\ thr[t].status = "idle"
    /\ thr' = [u \in Threads |->
                 IF u = t
                 THEN [Idle EXCEPT !.status = "running", !.job = job, !.pc = 1, !.g = g,
                                   !.mixed = \E v \in Threads \ {t} : Running(v)]
                 ELSE [thr[u] EXCEPT !.mixed = @ \/ Running(u)]]

\* api_server.generate_code: the request gets its own CodeGenerator
BeginOwn(t, job) ==
    /\ Begin(t, job, InstanceOf(t))
    /\ cgen' = [cgen EXCEPT ![InstanceOf(t)] = NewGenerator]

\* the request is served by the instance that the process keeps
BeginShared(t, job) ==
    /\ Begin(t, job, 1)
    /\ UNCHANGED cgen

\* self.indent_level = 0
Zero(t) ==
    /\ At(t, "zero")
    /\ cgen' = [cgen EXCEPT ![thr[t].g].indent_level = 0]
    /\ Advance(t)

\* self.variables = {}
Clear(t) ==
    /\ At(t, "clear")
    /\ cgen' = [cgen EXCEPT ![thr[t].g].variables = {}]
    /\ Advance(t)

\* f"{self._indent()}..."
Line(t) ==
    /\ At(t, "line")
    /\ thr' = [thr EXCEPT ![t].pc = @ + 1,
                          ![t].lines = Append(@, Piece(Indent(cgen[thr[t].g]) + Current(t).extra,
                                                       Current(t).txt))]
    /\ UNCHANGED cgen

\* the read of self.indent_level in += 1 and -= 1
Load(t) ==
    /\ At(t, "load")
    /\ thr' = [thr EXCEPT ![t].pc = @ + 1, ![t].tmp = cgen[thr[t].g].indent_level]
    /\ UNCHANGED cgen

\* a decrement that stores the value read
Lowered_Not(n) == n

Lowered(n) == n - 1

\* the write of self.indent_level in += 1
Inc(t) ==
    /\ At(t, "inc")
    /\ cgen' = [cgen EXCEPT ![thr[t].g].indent_level = thr[t].tmp + 1]
    /\ Advance(t)

\* the write of self.indent_level in -= 1
Dec(t) ==
    /\ At(t, "dec")
    /\ cgen' = [cgen EXCEPT ![thr[t].g].indent_level = Lowered(thr[t].tmp)]
    /\ Advance(t)

\* self.variables[var_name] = value
SetVariable(t) ==
    /\ At(t, "set")
    /\ cgen' = [cgen EXCEPT ![thr[t].g].variables =
                                SetVar(@, StrV(Current(t).name), Current(t).value)]
    /\ Advance(t)

\* return "\n".join(code_lines), execution_plan
Return(t) ==
    /\ At(t, "return")
    /\ thr' = [thr EXCEPT ![t].status = "returned",
                          ![t].plan = generate_from_blocks(NewGenerator, thr[t].job, FALSE).plan]
    /\ UNCHANGED cgen

\* the response is sent
Respond(t) ==
    /\ thr[t].status = "returned"
    /\ thr' = [thr EXCEPT ![t] = Idle]
    /\ UNCHANGED cgen

InitThreads ==
    /\ thr = [t \in Threads |-> Idle]
    /\ cgen = [g \in Threads |-> NewGenerator]

Init == InitCompiler /\ InitPalette /\ InitSession /\ InitThreads /\ InitWorkflow

Next ==
    \/ \E req \in Requests : NewRequest(req) /\ UNCHANGED <<sessionVars, paletteVars, threadVars, workflowVars>>
    \/ \E i \in Instances : GenerateFromBlocks(i) /\ UNCHANGED <<sessionVars, paletteVars, threadVars, workflowVars>>
    \/ \E i \in Instances :
            GenerateCodeForSingleCommand(i) /\ UNCHANGED <<sessionVars, paletteVars, threadVars, workflowVars>>
    \/ GenerateCode /\ UNCHANGED <<sessionVars, paletteVars, threadVars, workflowVars>>
    \/ Done /\ UNCHANGED <<sessionVars, paletteVars, threadVars, workflowVars>>

Spec == Init /\ [][Next]_vars

\* the compiler given block records of other shapes
NextRecords ==
    \/ \E req \in RecordRequests : NewRequest(req) /\ UNCHANGED <<sessionVars, paletteVars, threadVars, workflowVars>>
    \/ \E i \in Instances : GenerateFromBlocks(i) /\ UNCHANGED <<sessionVars, paletteVars, threadVars, workflowVars>>
    \/ \E i \in Instances :
            GenerateCodeForSingleCommand(i) /\ UNCHANGED <<sessionVars, paletteVars, threadVars, workflowVars>>
    \/ Done /\ UNCHANGED <<sessionVars, paletteVars, threadVars, workflowVars>>

SpecRecords == Init /\ [][NextRecords]_vars

NextPalette ==
    \/ \E level \in Levels : PaletteSetLevel(level) /\ UNCHANGED <<compilerVars, sessionVars, threadVars, workflowVars>>
    \/ \E id \in AskedIds : IsCommandAvailable(id) /\ UNCHANGED <<compilerVars, sessionVars, threadVars, workflowVars>>
    \/ \E f \in BOOLEAN : GetAllCommands(f) /\ UNCHANGED <<compilerVars, sessionVars, threadVars, workflowVars>>
    \/ \E f \in BOOLEAN : GetCommandsByCategory(f) /\ UNCHANGED <<compilerVars, sessionVars, threadVars, workflowVars>>

SpecPalette == Init /\ [][NextPalette]_vars

NextSession ==
    \/ \E level \in Levels : SetLevel(level) /\ UNCHANGED <<compilerVars, paletteVars, threadVars, workflowVars>>
    \/ \E a \in SessionAsks :
            AddCommandFromPalette(a.id, a.custom) /\ UNCHANGED <<compilerVars, paletteVars, threadVars, workflowVars>>
    \/ \E index \in RemoveIndices :
            RemoveCommandFromWorkflow(index) /\ UNCHANGED <<compilerVars, paletteVars, threadVars, workflowVars>>

SpecSession == Init /\ [][NextSession]_vars

\* a session that is edited, listed, exported and imported, at the first and last level
NextEditing ==
    \/ \E level \in EditingLevels : SetLevel(level) /\ UNCHANGED <<compilerVars, paletteVars, threadVars, workflowVars>>
    \/ \E a \in EditingAsks :
            AddCommandFromPalette(a.id, a.custom) /\ UNCHANGED <<compilerVars, paletteVars, threadVars, workflowVars>>
    \/ \E index \in RemoveIndices :
            RemoveCommandFromWorkflow(index) /\ UNCHANGED <<compilerVars, paletteVars, threadVars, workflowVars>>
    \/ \E data \in ImportData : ImportSession(data) /\ UNCHANGED <<compilerVars, paletteVars, threadVars, workflowVars>>
    \/ ImportExported /\ UNCHANGED <<compilerVars, paletteVars, threadVars, workflowVars>>
    \/ ExportSession /\ UNCHANGED <<compilerVars, paletteVars, threadVars, workflowVars>>
    \/ \E given \in BOOLEAN, asked \in Levels :
            GetAvailableCommandsForLevel(given, asked)
            /\ UNCHANGED <<compilerVars, paletteVars, threadVars, workflowVars>>
    \/ \E level \in EditingLevels : NewSession(level) /\ UNCHANGED <<compilerVars, paletteVars, threadVars, workflowVars>>

SpecEditing == Init /\ [][NextEditing]_vars

\* concurrent requests, each with its own CodeGenerator
NextOwn ==
    \/ \E t \in Threads, job \in Jobs :
            BeginOwn(t, job) /\ UNCHANGED <<compilerVars, sessionVars, paletteVars, workflowVars>>
    \/ \E t \in Threads : Zero(t) /\ UNCHANGED <<compilerVars, sessionVars, paletteVars, workflowVars>>
    \/ \E t \in Threads : Clear(t) /\ UNCHANGED <<compilerVars, sessionVars, paletteVars, workflowVars>>
    \/ \E t \in Threads : Line(t) /\ UNCHANGED <<compilerVars, sessionVars, paletteVars, workflowVars>>
    \/ \E t \in Threads : Load(t) /\ UNCHANGED <<compilerVars, sessionVars, paletteVars, workflowVars>>
    \/ \E t \in Threads : Inc(t) /\ UNCHANGED <<compilerVars, sessionVars, paletteVars, workflowVars>>
    \/ \E t \in Threads : Dec(t) /\ UNCHANGED <<compilerVars, sessionVars, paletteVars, workflowVars>>
    \/ \E t \in Threads : SetVariable(t) /\ UNCHANGED <<compilerVars, sessionVars, paletteVars, workflowVars>>
    \/ \E t \in Threads : Return(t) /\ UNCHANGED <<compilerVars, sessionVars, paletteVars, workflowVars>>
    \/ \E t \in Threads : Respond(t) /\ UNCHANGED <<compilerVars, sessionVars, paletteVars, workflowVars>>

SpecOwn == Init /\ [][NextOwn]_vars

\* one call in each thread, both on one CodeGenerator, in any order or interleaving
NextShared ==
    \/ \E t \in Threads, job \in SharedJobs :
            BeginShared(t, job) /\ UNCHANGED <<compilerVars, sessionVars, paletteVars, workflowVars>>
    \/ \E t \in Threads : Zero(t) /\ UNCHANGED <<compilerVars, sessionVars, paletteVars, workflowVars>>
    \/ \E t \in Threads : Clear(t) /\ UNCHANGED <<compilerVars, sessionVars, paletteVars, workflowVars>>
    \/ \E t \in Threads : Line(t) /\ UNCHANGED <<compilerVars, sessionVars, paletteVars, workflowVars>>
    \/ \E t \in Threads : Load(t) /\ UNCHANGED <<compilerVars, sessionVars, paletteVars, workflowVars>>
    \/ \E t \in Threads : Inc(t) /\ UNCHANGED <<compilerVars, sessionVars, paletteVars, workflowVars>>
    \/ \E t \in Threads : Dec(t) /\ UNCHANGED <<compilerVars, sessionVars, paletteVars, workflowVars>>
    \/ \E t \in Threads : SetVariable(t) /\ UNCHANGED <<compilerVars, sessionVars, paletteVars, workflowVars>>
    \/ \E t \in Threads : Return(t) /\ UNCHANGED <<compilerVars, sessionVars, paletteVars, workflowVars>>

SpecShared == Init /\ [][NextShared]_vars

\* a VisualWorkflow edited directly
NextWorkflow ==
    \/ \E c \in FlowCommands :
            AddCommand(c) /\ UNCHANGED <<compilerVars, sessionVars, paletteVars, threadVars>>
    \/ \E i \in FlowIndices, c \in FlowCommands :
            InsertCommand(i, c) /\ UNCHANGED <<compilerVars, sessionVars, paletteVars, threadVars>>
    \/ \E i \in FlowIndices :
            RemoveCommand(i) /\ UNCHANGED <<compilerVars, sessionVars, paletteVars, threadVars>>
    \/ \E i \in FlowIndices, j \in FlowIndices :
            MoveCommand(i, j) /\ UNCHANGED <<compilerVars, sessionVars, paletteVars, threadVars>>
    \/ \E i \in FlowIndices, c \in FlowCommands :
            UpdateCommand(i, c) /\ UNCHANGED <<compilerVars, sessionVars, paletteVars, threadVars>>
    \/ ClearWorkflow /\ UNCHANGED <<compilerVars, sessionVars, paletteVars, threadVars>>

SpecWorkflow == Init /\ [][NextWorkflow]_vars

(***************************************************************************)
(* Vocabulary of the properties.                                           *)
(***************************************************************************)
\* the generator state at nesting depth d
AtDepth(d) == [indent_level |-> d, variables |-> {}]

\* the blocks nested in a block sequence, each with the depth it is rendered at
RECURSIVE Occurrences(_, _)
Nested(b, d) ==
    LET ps == Get(b, "params", NoParams)
    IN IF Get(b, "type", "") \in {"loop", "function"}
       THEN Occurrences(Get(ps, "body", <<>>), d + 1)
       ELSE IF Get(b, "type", "") = "conditional"
       THEN Occurrences(Get(ps, "if_body", <<>>), d + 1)
            \cup Occurrences(Get(ps, "else_body", <<>>), d + 1)
       ELSE {}
Occurrences(blocks, d) ==
    UNION { {<<blocks[k], d>>} \cup Nested(blocks[k], d) : k \in 1..Len(blocks) }

\* a call of generate_from_blocks on the request has returned
Generated(i) == out[i].op = "generate" /\ ~out[i].err

\* the occurrences in the request once an instance has compiled it
Compiled == IF \E i \in Instances : Generated(i) THEN Occurrences(request.blocks, 0) ELSE {}

\* the text and plan of block b alone at depth d
Frag(b, d) == process_block(b, IntV(0), AtDepth(d))

IsLeaf(b) == b.type \notin ControlTypes

\* a Loop with integer iterations >= 0 and a body of leaf blocks
IsLeafLoop(b) ==
    /\ b.type = "loop"
    /\ b.params.iterations.kind = "int"
    /\ b.params.iterations.num >= 0
    /\ \A k \in 1..Len(b.params.body) : IsLeaf(b.params.body[k])

\* the plans of the children of a body, in order, each child processed on its own
RECURSIVE ChildPlans(_, _, _, _)
ChildPlans(body, k, idx, tag) ==
    IF k > Len(body) THEN <<>>
    ELSE process_block(body[k], ChildId(idx, tag, k - 1), NewGenerator).plan
         \o ChildPlans(body, k + 1, idx, tag)

\* the source text of the only block of the request, below the fixed header
TopFragment(i) == SubSeq(out[i].code, 6, Len(out[i].code))

SingleBlock(i) == Generated(i) /\ Len(request.blocks) = 1 /\ ~request.impl

(***************************************************************************)
(* C1: a Loop with iterations = N >= 0 and a body of M leaf blocks yields  *)
(* exactly N*M plan steps, each with a loop_iteration in 0..N-1.            *)
(***************************************************************************)
LoopCardinality(b, plan) ==
    /\ Len(plan) = b.params.iterations.num * Len(b.params.body)
    /\ \A j \in 1..Len(plan) :
          /\ "loop_iteration" \in DOMAIN plan[j]
          /\ plan[j].loop_iteration \in 0..(b.params.iterations.num - 1)

C1_LoopPlanCardinality ==
    /\ \A i \in Instances :
          SingleBlock(i) /\ IsLeafLoop(request.blocks[1])
          => LoopCardinality(request.blocks[1], out[i].plan)
    /\ \A o \in Compiled : IsLeafLoop(o[1]) => LoopCardinality(o[1], Frag(o[1], o[2]).plan)

C1_Witness ==
    /\ SingleBlock(1)
    /\ request.blocks = <<Loop(IntV(2), <<TurnRight90, PrintA>>)>>
    /\ Len(out[1].plan) = 4

(***************************************************************************)
(* C2: the plan of a Loop is ordered per child, then per iteration: the N  *)
(* replicas of child 0 (iterations 0..N-1 in order), then those of child   *)
(* 1, and so on.                                                           *)
(***************************************************************************)
\* the replica of child c (from 0) for iteration it is at this place of the plan
ReplicaAt(b, plan, c, it) ==
    LET item == plan[c * b.params.iterations.num + it + 1]
        own == Frag(b.params.body[c + 1], 1).plan[1]
    IN /\ item.step = StrV("0_iter" \o ToString(it) \o "_" \o ToString(c))
       /\ item.loop_iteration = it
       /\ DOMAIN item = DOMAIN own \cup {"loop_iteration"}
       /\ \A f \in DOMAIN own \ {"step"} : item[f] = own[f]

C2_LoopPlanOrder ==
    \A i \in Instances :
        SingleBlock(i) /\ IsLeafLoop(request.blocks[1])
        => LET b == request.blocks[1]
           IN /\ Len(out[i].plan) = b.params.iterations.num * Len(b.params.body)
              /\ \A c \in 0..(Len(b.params.body) - 1) :
                    \A it \in 0..(b.params.iterations.num - 1) :
                        ReplicaAt(b, out[i].plan, c, it)

C2_Witness ==
    /\ SingleBlock(1)
    /\ request.blocks = <<Loop(IntV(2), <<TurnRight90, PrintA>>)>>
    /\ out[1].plan[2].action = "rotate"
    /\ out[1].plan[2].loop_iteration = 1
    /\ out[1].plan[3].action = "print"
    /\ out[1].plan[3].loop_iteration = 0

(***************************************************************************)
(* C3: a Conditional yields exactly one plan step, with action             *)
(* 'conditional' and the block's condition; its branches are the plans of  *)
(* the if_body children in order followed by those of the else_body        *)
(* children in order; the else path has no step of its own.                *)
(***************************************************************************)
IsCond(b) == b.type = "conditional"

ConditionalStep(b, plan, idx) ==
    /\ Len(plan) = 1
    /\ plan[1].action = "conditional"
    /\ plan[1].step = idx
    /\ plan[1].condition = b.params.condition
    /\ plan[1].branches = ChildPlans(b.params.if_body, 1, idx, "_if_")
                          \o ChildPlans(b.params.else_body, 1, idx, "_else_")

C3_ConditionalPlan ==
    /\ \A i \in Instances :
          SingleBlock(i) /\ IsCond(request.blocks[1])
          => ConditionalStep(request.blocks[1], out[i].plan, IntV(0))
    /\ \A o \in Compiled :
          IsCond(o[1]) /\ ~Frag(o[1], o[2]).err
          => ConditionalStep(o[1], Frag(o[1], o[2]).plan, IntV(0))

C3_Witness ==
    /\ SingleBlock(1)
    /\ request.blocks = <<Cond("x>5", <<PrintA, VarX5>>, <<TurnRight90>>)>>
    /\ Len(out[1].plan) = 1
    /\ Len(out[1].plan[1].branches) = 3
    /\ out[1].plan[1].branches[3].action = "rotate"

(***************************************************************************)
(* C4: the text of a Conditional has an else header if and only if         *)
(* else_body is not empty; the else header is at the depth of the if       *)
(* header and the else_body blocks are rendered one level deeper.          *)
(***************************************************************************)
\* the places of the else headers of a Conditional whose text is f
ElseLines(f) == { k \in 3..Len(f) : f[k].txt = "else:" /\ f[k].ind = f[2].ind }

\* "\n".join of the texts of the children of a body rendered at depth d
RECURSIVE ChildTexts(_, _, _)
ChildTexts(body, k, d) ==
    IF k > Len(body) THEN <<>>
    ELSE <<Frag(body[k], d).code>> \o ChildTexts(body, k + 1, d)

ElseRendering(b, d, f) ==
    /\ f[2] = Piece(d * indent_size, "if " \o b.params.condition.str \o ":")
    /\ (ElseLines(f) # {}) <=> (b.params.else_body # <<>>)
    /\ Cardinality(ElseLines(f)) <= 1
    /\ \A e \in ElseLines(f) :
          /\ e + 2 <= Len(f)
          /\ f[e + 1] = Piece(0, "")
          /\ f[e + 2].ind = (d + 1) * indent_size
          /\ SubSeq(f, e + 2, Len(f)) = JoinNL(ChildTexts(b.params.else_body, 1, d + 1))

C4_ElseHeader ==
    /\ \A i \in Instances :
          SingleBlock(i) /\ IsCond(request.blocks[1])
          => ElseRendering(request.blocks[1], 0, TopFragment(i))
    /\ \A o \in Compiled :
          IsCond(o[1]) /\ ~Frag(o[1], o[2]).err
          => ElseRendering(o[1], o[2], Frag(o[1], o[2]).code)

\* a Conditional with an else part, nested in a loop, has been compiled
C4_Witness ==
    /\ Generated(1)
    /\ request.blocks = <<Loop(IntV(2), <<Cond("x>5", <<>>, <<PrintA>>)>>)>>
    /\ \E k \in 1..Len(out[1].code) : out[1].code[k] = Piece(4, "else:")
    /\ out[1].code[Len(out[1].code)] = Piece(8, "print(\"A\")")

(***************************************************************************)
(* C5: a Loop or Conditional with an empty body (body / if_body) renders   *)
(* exactly one placeholder line 'pass' one level below its header, at      *)
(* whatever depth the block is, and the empty body adds no plan steps.     *)
(***************************************************************************)
IsEmptyLoop(b) == b.type = "loop" /\ b.params.body = <<>>
IsEmptyIf(b) == b.type = "conditional" /\ b.params.if_body = <<>>

\* the lines under the header of f up to its else header, or to its end
UnderHeader(f) ==
    IF ElseLines(f) = {} THEN SubSeq(f, 3, Len(f))
    ELSE SubSeq(f, 3, (CHOOSE e \in ElseLines(f) : TRUE) - 1)

EmptyBodyRendering(b, d, r) ==
    /\ ~r.err
    /\ r.code[2].ind = d * indent_size
    /\ UnderHeader(r.code) = <<Piece((d + 1) * indent_size, "pass")>>
    /\ b.type = "loop" => r.plan = <<>>
    /\ b.type = "conditional" =>
          r.plan[1].branches = ChildPlans(b.params.else_body, 1, IntV(0), "_else_")

C5_EmptyBodyPlaceholder ==
    /\ \A i \in Instances :
          SingleBlock(i) /\ (IsEmptyLoop(request.blocks[1]) \/ IsEmptyIf(request.blocks[1]))
          => EmptyBodyRendering(request.blocks[1], 0,
                                [err |-> FALSE, code |-> TopFragment(i), plan |-> out[i].plan])
    /\ \A o \in Compiled :
          IsEmptyLoop(o[1]) \/ IsEmptyIf(o[1]) => EmptyBodyRendering(o[1], o[2], Frag(o[1], o[2]))

\* an empty Conditional two levels down has been compiled
C5_Witness ==
    /\ Generated(1)
    /\ request.blocks = <<Loop(IntV(2), <<Loop(IntV(2), <<Cond("x>5", <<>>, <<>>)>>)>>)>>
    /\ out[1].code[Len(out[1].code)] = Piece(12, "pass")
    /\ out[1].plan[1].branches = <<>>

(***************************************************************************)
(* C6: for every Loop, Conditional (if and else parts) and Function at any *)
(* nesting depth, every line emitted while synthesizing its body has       *)
(* strictly more leading indentation than the header opening that body.    *)
(* As stated this fails on the empty line that a nested control block      *)
(* puts between its header and its body; it holds of the non-empty lines.  *)
(***************************************************************************)
IsControl(b) == b.type \in ControlTypes

\* the lines of f the handler itself puts around the bodies: the empty line
\* after the header, the else header and the empty line after it
Separators(f) ==
    { k \in {3} : f[3] = Piece(0, "") }
    \cup ElseLines(f) \cup { e + 1 : e \in ElseLines(f) }

\* the lines of f emitted for the bodies (the placeholder included)
BodyLines(f) == (3..Len(f)) \ Separators(f)

AllDeeper(f) == \A k \in BodyLines(f) : f[k].ind > f[2].ind

NonEmptyDeeper(f) == \A k \in BodyLines(f) : f[k].txt # "" => f[k].ind > f[2].ind

C7_DepthRestored ==
    \A i \in Instances :
        out[i].op = "generate"
        => /\ gen[i].indent_level = 0
           /\ \A o \in Occurrences(request.blocks, 0) :
                 Frag(o[1], o[2]).st.indent_level = o[2]

(***************************************************************************)
(* C8: two independent CodeGenerator instances given the same block        *)
(* sequence and prelude flag return identical source text and identical    *)
(* execution plans.                                                        *)
(***************************************************************************)
C8_Determinism ==
    (out[1].op = "generate" /\ out[2].op = "generate")
    => /\ out[1].err = out[2].err
       /\ out[1].code = out[2].code
       /\ out[1].plan = out[2].plan

\* both instances have compiled the request, with different histories
C8_Witness ==
    /\ Generated(1) /\ Generated(2)
    /\ out[1].pre # out[2].pre
    /\ out[1].pre.indent_level > 0
    /\ Len(out[1].plan) > 1
    /\ request.impl

(***************************************************************************)
(* C9: every call of generate_from_blocks or                               *)
(* generate_code_for_single_command first resets the depth and the         *)
(* variable table: on a reused instance it returns, and leaves behind,     *)
(* what the same call does on a fresh instance, whatever the earlier calls *)
(* on the instance were.                                                   *)
(***************************************************************************)
SameAsFresh(i, fresh) ==
    /\ out[i].err = fresh.err
    /\ out[i].code = fresh.code
    /\ out[i].plan = fresh.plan
    /\ gen[i] = fresh.st

C9_ResetBeforeCall ==
    \A i \in Instances :
        /\ out[i].op = "generate"
           => SameAsFresh(i, generate_from_blocks(NewGenerator, request.blocks, request.impl))
        /\ out[i].op = "single"
           => SameAsFresh(i, generate_code_for_single_command(NewGenerator, request.blocks[1]))

\* a call has returned on an instance left, by a call that raised inside a
\* nested body, with a raised depth and a non-empty variable table
C9_Witness ==
    /\ out[1].op \in {"generate", "single"}
    /\ ~out[1].err
    /\ out[1].pre.indent_level > 0
    /\ out[1].pre.variables # {}
    /\ Len(out[1].code) > 1

(***************************************************************************)
(* C10: a command K of the registry is reported available at level L, and  *)
(* is listed at L by get_all_commands and get_commands_by_category with    *)
(* level filtering, if and only if L is in K's available_levels; 'loop' is *)
(* refused at level 1 and accepted at level 4.                             *)
(***************************************************************************)
\* the ids of the entries of a list of commands
IdsOf(list) == { list[k].id : k \in 1..Len(list) }

Unlocked(K, L) == L \in commands[K].available_levels

C10_LevelGate ==
    /\ reply.op = "is_command_available" =>
          /\ reply.id \in DOMAIN commands => (reply.result <=> Unlocked(reply.id, reply.level))
          /\ reply.id = "loop" /\ reply.level = 1 => ~reply.result
          /\ reply.id = "loop" /\ reply.level = 4 => reply.result
    /\ reply.op = "get_all_commands" /\ reply.filter =>
          \A K \in DOMAIN commands : K \in IdsOf(reply.result) <=> Unlocked(K, reply.level)
    /\ reply.op = "get_commands_by_category" /\ reply.filter =>
          \A K \in DOMAIN commands :
              /\ (\E c \in DOMAIN reply.result : K \in IdsOf(reply.result[c]))
                 <=> Unlocked(K, reply.level)
              /\ \A c \in DOMAIN reply.result :
                    K \in IdsOf(reply.result[c]) => commands[K].category = c

\* 'loop' has been asked for at level 4, after the palette was at another level
C10_Witness ==
    /\ reply.op = "is_command_available"
    /\ reply.id = "loop"
    /\ reply.level = 4
    /\ reply.result
    /\ palette.current_level = 4

(***************************************************************************)
(* C11: add_command_from_palette with a command that is not unlocked at    *)
(* the session's current level returns success = False with an error that  *)
(* names the command and the level, and leaves the workflow sequence and   *)
(* code_cache as they were before the call.                                *)
(***************************************************************************)
\* the command is in the registry and the level is one of its available_levels
UnlockedAt(command_id, level) ==
    command_id \in DOMAIN commands /\ level \in commands[command_id].available_levels

Refused(a) ==
    AddCommandFromPalette(a.id, a.custom) /\ ~UnlockedAt(a.id, current_level)
    => /\ ~ret'.raised
       /\ ret'.success = FALSE
       /\ ret'.error = "Command '" \o a.id \o "' is not available at Level "
                       \o ToString(current_level)
       /\ sequence' = sequence
       /\ code_cache' = code_cache

C11_RefusedAddIsNoOp == [][\A a \in SessionAsks : Refused(a)]_vars

\* 'loop' has been refused at level 1 on a workflow that holds a command
C11_Witness ==
    /\ ret.op = "add"
    /\ ~ret.raised
    /\ ~ret.success
    /\ ret.error = "Command 'loop' is not available at Level 1"
    /\ current_level = 1
    /\ Len(sequence) = 1
    /\ code_cache # EmptyText

(***************************************************************************)
(* C12: for every block kind and every subset of its parameters left out   *)
(* of the block (the params dict itself included), synthesis succeeds and  *)
(* gives the source text and the plan of the same block with each absent   *)
(* parameter set to the registry default of its kind.                      *)
(***************************************************************************)
Kind(b) == Get(b, "type", "")

\* default_params of the registry command that makes blocks of this kind
DefaultsOf(kind) ==
    IF \E id \in DOMAIN commands : commands[id].type = kind
    THEN commands[CHOOSE id \in DOMAIN commands : commands[id].type = kind].default_params
    ELSE NoParams

BodyKeys == {"body", "if_body", "else_body"}

\* the block with every absent parameter set to the default, in its bodies too
RECURSIVE FillAll(_)
FillParams(kind, ps) ==
    Block(kind, [k \in DOMAIN ps |->
                    IF k \in BodyKeys THEN [j \in 1..Len(ps[k]) |-> FillAll(ps[k][j])]
                    ELSE ps[k]])
FillAll(b) == FillParams(Kind(b), Merge(DefaultsOf(Kind(b)), Get(b, "params", NoParams)))

\* what the call that gave out[i] gives on a fresh instance for the block b
AloneOn(i, b) ==
    IF out[i].op = "generate" THEN generate_from_blocks(NewGenerator, <<b>>, request.impl)
    ELSE generate_code_for_single_command(NewGenerator, b)

SameTextAndPlan(o, r) == ~o.err /\ ~r.err /\ o.code = r.code /\ o.plan = r.plan

C12_AbsentParametersDefault ==
    \A i \in Instances :
        /\ out[i].op # "none"
        /\ Len(request.blocks) = 1
        /\ request.blocks[1] \in SparseBlocks
        => SameTextAndPlan(out[i], AloneOn(i, FillAll(request.blocks[1])))

\* a conditional given with its else_body only has been compiled as one with the
\* condition 'True' and an empty if_body
C12_Witness ==
    /\ out[1].op = "generate"
    /\ request.blocks = <<Block("conditional", [else_body |-> <<Bare("turn_right")>>])>>
    /\ ~out[1].err
    /\ out[1].plan[1].condition = StrV("True")
    /\ out[1].plan[1].branches[1].degrees = IntV(90)
    /\ \E k \in 1..Len(out[1].code) : out[1].code[k] = Piece(0, "if True:")

(***************************************************************************)
(* C13: a block of a kind that is not recognized is never an error, at top *)
(* level or in a body: it renders a comment line naming the kind followed  *)
(* by a placeholder line, and gives exactly one plan step with action      *)
(* 'unknown', the kind in 'type' and duration 0.1; the other blocks of the *)
(* sequence are still processed.                                           *)
(***************************************************************************)
IsUnknown(b) == "type" \in DOMAIN b /\ b.type \notin LeafTypes \cup ControlTypes

UnknownStep(step, t, idx) ==
    step = [step |-> idx, action |-> "unknown", type |-> t, duration |-> FloatV(1)]

\* the two lines of an unknown block of kind t at depth d
UnknownLines(t, d) ==
    <<Piece(d * indent_size, "# Unknown block type: " \o t),
      Piece(d * indent_size, "pass  # TODO: Implement " \o t)>>

\* the result r of processing an unknown block of kind t at depth d with path id idx
UnknownRendering(t, d, idx, r) ==
    /\ ~r.err
    /\ r.code = UnknownLines(t, d)
    /\ Len(r.plan) = 1
    /\ UnknownStep(r.plan[1], t, idx)

\* the places of a text where the two lines are found
Places(code, lines) == { k \in 1..(Len(code) - 1) : SubSeq(code, k, k + 1) = lines }

\* a top-level block that is neither a loop nor unknown leaves one step with its position
OwnStep(b, step, idx) ==
    /\ step.step = idx
    /\ Kind(b) \in LeafTypes \cup ControlTypes => step = process_block(b, idx, NewGenerator).plan[1]

C13_UnknownKindGraceful ==
    \A i \in Instances :
        out[i].op = "generate" /\ (\E o \in Occurrences(request.blocks, 0) : IsUnknown(o[1]))
        => /\ ~out[i].err
           /\ \A o \in Occurrences(request.blocks, 0) :
                 IsUnknown(o[1])
                 => /\ UnknownRendering(o[1].type, o[2], StrV("p"),
                                        process_block(o[1], StrV("p"), AtDepth(o[2])))
                    /\ Places(out[i].code, UnknownLines(o[1].type, o[2])) # {}
           /\ (\A k \in 1..Len(request.blocks) : Kind(request.blocks[k]) # "loop")
              => /\ Len(out[i].plan) = Len(request.blocks)
                 /\ \A k \in 1..Len(request.blocks) :
                       IF IsUnknown(request.blocks[k])
                       THEN UnknownStep(out[i].plan[k], request.blocks[k].type, IntV(k - 1))
                       ELSE OwnStep(request.blocks[k], out[i].plan[k], IntV(k - 1))

\* an unknown block between two leaves has been compiled, and the leaf after it too
C13_Witness ==
    /\ out[1].op = "generate"
    /\ request.blocks = <<MoveForward3, Fly, PrintA>>
    /\ ~out[1].err
    /\ out[1].plan[2].action = "unknown"
    /\ out[1].plan[3].action = "print"
    /\ out[1].code[Len(out[1].code)] = Piece(0, "print(\"A\")")

(***************************************************************************)
(* C14: a block record without its kind surfaces as a failure reported to  *)
(* the caller: it is not rendered as an unknown block and it leaves no     *)
(* 'unknown' plan step.                                                    *)
(***************************************************************************)
\* the actions of the steps of a plan, those nested in branches and body_plan included
RECURSIVE ActionsIn(_)
ActionsOf(step) ==
    {step.action}
    \cup (IF "branches" \in DOMAIN step THEN ActionsIn(step.branches) ELSE {})
    \cup (IF "body_plan" \in DOMAIN step THEN ActionsIn(step.body_plan) ELSE {})
ActionsIn(plan) == UNION { ActionsOf(plan[k]) : k \in 1..Len(plan) }

IsKindless(b) == "type" \notin DOMAIN b

C14_MissingKindReported ==
    \A i \in Instances :
        /\ out[i].op = "generate"
        /\ \E o \in Occurrences(request.blocks, 0) : IsKindless(o[1])
        => /\ out[i].err
           /\ "unknown" \notin ActionsIn(out[i].plan)
           /\ \A d \in 0..2 : Places(out[i].code, UnknownLines("", d)) = {}

(***************************************************************************)
(* C15: for every sequence of block records, whatever the kind or the      *)
(* parameter values of any block (a non-numeric iterations included),      *)
(* generate_from_blocks returns a source text and an execution plan.       *)
(***************************************************************************)
C15_AlwaysReturns ==
    \A i \in Instances : out[i].op = "generate" => ~out[i].err

(***************************************************************************)
(* C16: generate_from_blocks processes the top-level blocks in sequence    *)
(* order: the code fragments appear in the source text, and the steps in   *)
(* the plan, in the order of their blocks, and the step of a top-level     *)
(* leaf, Conditional, Function or unknown block at position i has step id  *)
(* i; one MoveForward with distance 3 gives the single step {step 0, move, *)
(* forward, distance 3, duration 1.0}.                                     *)
(***************************************************************************)
\* block k of a sequence (from 1) compiled on its own with the path id of its position
AtPosition(blocks, k) == process_block(blocks[k], IntV(k - 1), NewGenerator)

RECURSIVE TextsInOrder(_, _)
TextsInOrder(blocks, k) ==
    IF k > Len(blocks) THEN <<>>
    ELSE <<AtPosition(blocks, k).code>> \o TextsInOrder(blocks, k + 1)

RECURSIVE PlansInOrder(_, _)
PlansInOrder(blocks, k) ==
    IF k > Len(blocks) THEN <<>>
    ELSE AtPosition(blocks, k).plan \o PlansInOrder(blocks, k + 1)

PositionalStep(blocks, k) ==
    Kind(blocks[k]) # "loop"
    => /\ Len(AtPosition(blocks, k).plan) = 1
       /\ AtPosition(blocks, k).plan[1].step = IntV(k - 1)

C16_TopLevelOrder ==
    \A i \in Instances :
        Generated(i)
        => /\ out[i].code = JoinNL(HeaderLines(request.impl) \o TextsInOrder(request.blocks, 1)
                                   \o FooterLines(request.impl))
           /\ out[i].plan = PlansInOrder(request.blocks, 1)
           /\ \A k \in 1..Len(request.blocks) : PositionalStep(request.blocks, k)
           /\ request.blocks = <<MoveForward3>>
              => out[i].plan = <<[step |-> IntV(0), action |-> "move", direction |-> "forward",
                                  distance |-> IntV(3), duration |-> FloatV(10)]>>

\* a function after a variable has been compiled: its step is step 1
C16_Witness ==
    /\ Generated(1)
    /\ request.blocks = <<VarX5, Func("f", <<"a">>, <<PrintA>>)>>
    /\ Len(out[1].plan) = 2
    /\ out[1].plan[1].action = "variable"
    /\ out[1].plan[2].action = "function_definition"
    /\ out[1].plan[2].step = IntV(1)
    /\ out[1].code[6] = Piece(0, "# Set variable x")
    /\ out[1].code[9] = Piece(0, "def f(a):")

(***************************************************************************)
(* C17: every leaf kind processed with path id p gives exactly one step,   *)
(* with step = p, whose duration is the constant of the kind whatever the  *)
(* parameters (move 1.0, rotate 0.5, jump 0.8, pick_object 0.5, print 0.3, *)
(* variable 0.2), except Wait whose duration is its seconds parameter.     *)
(***************************************************************************)
LeafDuration(b) ==
    CASE Kind(b) \in {"move_forward", "move_backward"} -> FloatV(10)
      [] Kind(b) \in {"turn_left", "turn_right"} -> FloatV(5)
      [] Kind(b) = "jump" -> FloatV(8)
      [] Kind(b) = "pick_object" -> FloatV(5)
      [] Kind(b) = "print" -> FloatV(3)
      [] Kind(b) = "variable" -> FloatV(2)
      [] Kind(b) = "wait" -> Get(Get(b, "params", NoParams), "seconds", IntV(1))

\* path ids of a top-level block, of a child of a body and of a grandchild
PathIds == { IntV(0), IntV(1), StrV("1_if_0"), StrV("0_2_else_1") }

OneTimedStep(b, p, plan) ==
    /\ Len(plan) = 1
    /\ plan[1].step = p
    /\ plan[1].duration = LeafDuration(b)

C17_LeafStep ==
    \A i \in Instances :
        Generated(i) /\ Len(request.blocks) = 1 /\ Kind(request.blocks[1]) \in LeafTypes
        => /\ OneTimedStep(request.blocks[1], IntV(0), out[i].plan)
           /\ \A p \in PathIds :
                 OneTimedStep(request.blocks[1], p,
                              process_block(request.blocks[1], p, gen[i]).plan)

\* a pick of an object other than the default one has taken the time of any pick
C17_Witness ==
    /\ Generated(1)
    /\ request.blocks = <<Block("pick_object", [object_name |-> StrV("key")])>>
    /\ Len(out[1].plan) = 1
    /\ out[1].plan[1].step = IntV(0)
    /\ out[1].plan[1].object_name = StrV("key")
    /\ out[1].plan[1].duration = FloatV(5)

(***************************************************************************)
(* C18: a Function block yields exactly one plan step, with action         *)
(* 'function_definition', the function name, its parameter list and, under *)
(* body_plan, the plans of its body children in order; the step has no     *)
(* 'branches' field and the children's steps are not in the enclosing plan *)
(* sequence.                                                               *)
(***************************************************************************)
IsFunc(b) == b.type = "function"

FunctionStep(b, plan, idx) ==
    /\ Len(plan) = 1
    /\ plan[1].action = "function_definition"
    /\ plan[1].step = idx
    /\ plan[1].name = b.params.name
    /\ plan[1].parameters = b.params.parameters
    /\ "branches" \notin DOMAIN plan[1]
    /\ plan[1].body_plan = ChildPlans(b.params.body, 1, idx, "_func_")

C18_FunctionPlan ==
    /\ \A i \in Instances :
          SingleBlock(i) /\ IsFunc(request.blocks[1])
          => FunctionStep(request.blocks[1], out[i].plan, IntV(0))
    /\ \A o \in Compiled :
          IsFunc(o[1]) /\ ~Frag(o[1], o[2]).err
          => FunctionStep(o[1], Frag(o[1], o[2]).plan, IntV(0))

\* a function of two parameters with a body of two leaves has been compiled
C18_Witness ==
    /\ SingleBlock(1)
    /\ request.blocks = <<Func("f", <<"a", "b">>, <<PrintA, VarX5>>)>>
    /\ Len(out[1].plan) = 1
    /\ out[1].plan[1].parameters = <<"a", "b">>
    /\ Len(out[1].plan[1].body_plan) = 2
    /\ out[1].plan[1].body_plan[2].step = StrV("0_func_1")

(***************************************************************************)
(* C19: with the runtime prelude requested, generate_from_blocks returns   *)
(* the plan it returns without it, and a source text that differs from the *)
(* text without prelude only by a prelude inserted after the fixed header  *)
(* and a final-state report call appended after the last block; the        *)
(* inserted lines are the same for every block sequence.                   *)
(***************************************************************************)
\* the lines inserted after the two header lines
PreludeLines ==
    <<Piece(0, "")>>
    \o [k \in 1..Len(get_function_implementations) |-> get_function_implementations[k][1]]

\* the lines appended after the last block
ReportLines == <<Piece(0, ""), Piece(0, "# Show results"), Piece(0, "show_final_position()")>>

\* o, returned with the prelude, against plain, returned without it
PreludeFrame(o, plain) ==
    /\ o.err = plain.err
    /\ ~o.err => /\ o.plan = plain.plan
                 /\ o.code = SubSeq(plain.code, 1, 2) \o PreludeLines
                             \o SubSeq(plain.code, 3, Len(plain.code)) \o ReportLines

C19_PreludeFrame ==
    \A i \in Instances :
        out[i].op = "generate" /\ request.impl
        => PreludeFrame(out[i], generate_from_blocks(NewGenerator, request.blocks, FALSE))

\* a loop has been compiled with the prelude: same plan, the report call at the end
C19_Witness ==
    /\ Generated(1)
    /\ request.impl
    /\ request.blocks = <<Loop(IntV(2), <<TurnRight90>>)>>
    /\ Len(out[1].plan) = 2
    /\ out[1].code[4] = Piece(0, "# Character state")
    /\ out[1].code[Len(out[1].code)] = Piece(0, "show_final_position()")
    /\ Len(out[1].code) = Len(PreludeLines) + Len(ReportLines) + 9

(***************************************************************************)
(* C20: the rendered text of MoveForward, TurnLeft, TurnRight and          *)
(* PickObject is the same for every value of the block's parameter, while  *)
(* the value is still carried in the plan step; the text of MoveBackward,  *)
(* Jump, Print, Variable and Wait varies with their parameters.            *)
(***************************************************************************)
FixedTextKinds == {"move_forward", "turn_left", "turn_right", "pick_object"}
VaryingTextKinds == {"move_backward", "jump", "print", "variable", "wait"}

\* the parameter of a kind of fixed text
ParamOf(kind) ==
    CASE kind = "move_forward" -> "distance"
      [] kind \in {"turn_left", "turn_right"} -> "degrees"
      [] kind = "pick_object" -> "object_name"

\* the text of leaf b compiled on its own at top level
TextOf(b) == process_block(b, IntV(0), NewGenerator).code

\* the leaves of the kind of b with other parameter values
Siblings(b) == { c \in LeafVariants : c.type = b.type /\ c # b }

C20_TextIndependentOfParameter ==
    \A i \in Instances :
        SingleBlock(i) /\ request.blocks[1] \in LeafVariants
        => /\ request.blocks[1].type \in FixedTextKinds
              => /\ \A c \in Siblings(request.blocks[1]) : TextOf(c) = TopFragment(i)
                 /\ out[i].plan[1][ParamOf(request.blocks[1].type)]
                    = request.blocks[1].params[ParamOf(request.blocks[1].type)]
           /\ request.blocks[1].type \in VaryingTextKinds
              => \A c \in Siblings(request.blocks[1]) : TextOf(c) # TopFragment(i)
           /\ Siblings(request.blocks[1]) # {}

\* a MoveForward of distance 2 has been compiled to the text of any MoveForward, with
\* the distance in its step
C20_Witness ==
    /\ SingleBlock(1)
    /\ request.blocks = <<Block("move_forward", [distance |-> IntV(2)])>>
    /\ TopFragment(1) = <<Piece(0, "print(f\"{'move forward'}\")")>>
    /\ out[1].plan[1].distance = IntV(2)

(***************************************************************************)
(* C21: after every edit operation of a GameplaySession (a successful      *)
(* add_command_from_palette, remove_command_from_workflow with any index,  *)
(* import_session) code_cache is the prelude-free source text that         *)
(* generate_from_blocks gives for the workflow's sequence, and the 'code'  *)
(* returned by the operation is that text.                                 *)
(***************************************************************************)
\* the last call on the session was an edit operation
Edited ==
    \/ ret.op = "add" /\ ~ret.raised /\ ret.success
    \/ ret.op \in {"remove", "import"}

\* r is what generate_from_blocks gives for the sequence
CacheIs(r) ==
    /\ ~r.err
    /\ ~ret.raised
    /\ code_cache = r.code
    /\ "code" \in DOMAIN ret => ret.code = r.code

C21_CodeCacheFresh == Edited => CacheIs(generate_from_blocks(NewGenerator, sequence, FALSE))

(***************************************************************************)
(* C22: two requests that compile different block trees concurrently, each *)
(* with its own CodeGenerator, never observe each other's indent depth or  *)
(* variable table: under every interleaving each request returns the       *)
(* source text and the plan it returns when run alone.                     *)
(***************************************************************************)
\* the lines that a call running alone renders through _indent()
AloneLines(job) ==
    LET code == generate_from_blocks(NewGenerator, job, FALSE).code
    IN SelectSeq(SubSeq(code, 6, Len(code)), LAMBDA piece : piece.txt # "")

\* thread t has returned what the call returns when it runs alone
AsAlone(t) ==
    /\ thr[t].lines = AloneLines(thr[t].job)
    /\ thr[t].plan = generate_from_blocks(NewGenerator, thr[t].job, FALSE).plan

C22_OwnInstanceIsolation ==
    \A t \in Threads :
        thr[t].status = "returned"
        => /\ AsAlone(t)
           /\ cgen[thr[t].g] = generate_from_blocks(NewGenerator, thr[t].job, FALSE).st

\* two different trees have been compiled in overlapping calls
C22_Witness ==
    /\ thr[1].status = "returned"
    /\ thr[2].status = "returned"
    /\ thr[1].mixed
    /\ thr[2].mixed
    /\ thr[1].job = <<Loop(IntV(2), <<PrintA>>)>>
    /\ thr[2].job = <<Cond("x>5", <<VarX5>>, <<TurnRight90>>)>>
    /\ thr[1].lines[4] = Piece(4, "print(\"A\")")
    /\ cgen[2].variables = {<<StrV("x"), IntV(5)>>}
    /\ cgen[1].variables = {}

(***************************************************************************)
(* C23: two generate_from_blocks calls that share one CodeGenerator are    *)
(* not safely reentrant: in some interleaving a call returns source text   *)
(* whose indentation differs from what it returns alone; serialized calls  *)
(* on the shared instance never show this.                                 *)
(***************************************************************************)
\* the texts of the lines, without their indentation
Texts(lines) == [k \in 1..Len(lines) |-> lines[k].txt]

C23_SerializedCallsAgree ==
    \A t \in Threads : thr[t].status = "returned" /\ ~thr[t].mixed => AsAlone(t)

\* a call that overlapped another one has returned its lines with another indentation
C23_Witness ==
    \E t \in Threads :
        /\ thr[t].status = "returned"
        /\ thr[t].mixed
        /\ Texts(thr[t].lines) = Texts(AloneLines(thr[t].job))
        /\ thr[t].lines # AloneLines(thr[t].job)

(***************************************************************************)
(* C24: in every state reachable by GameplaySession operations, every      *)
(* block held in the workflow, top-level or nested in a body, if_body or   *)
(* else_body, is of a kind that is usable at the session's current level.  *)
(***************************************************************************)
\* some registry command makes blocks of this kind and is available at the level
UsableAt(kind, level) ==
    \E id \in DOMAIN commands :
        commands[id].type = kind /\ level \in commands[id].available_levels

C24_WorkflowWithinLevel ==
    \A o \in Occurrences(sequence, 0) : UsableAt(Kind(o[1]), current_level)

(***************************************************************************)
(* C25: at the request boundary a failure is reported only for a           *)
(* structurally invalid block sequence: every request whose blocks value   *)
(* is a well-formed sequence of block records, each with a kind, the empty *)
(* sequence and unrecognized kinds included, returns success with a source *)
(* text and an execution plan.                                             *)
(***************************************************************************)
\* the blocks of the request and all blocks nested in them have a kind
WellFormed == \A o \in Occurrences(request.blocks, 0) : "type" \in DOMAIN o[1]

C25_OnlyStructuralFailures ==
    out[2].op = "api" /\ WellFormed
    => /\ out[2].response.success
       /\ out[2].response.status = 200
       /\ {"code", "plan"} \subseteq DOMAIN out[2].response

(***************************************************************************)
(* C26: in the plan returned by generate_from_blocks for any block tree,   *)
(* loops nested inside loops included, every replica produced by a Loop    *)
(* has a fresh step id: no two steps of the returned plan carry the same   *)
(* step id.                                                                *)
(***************************************************************************)
C26_StepIdsDistinct ==
    \A i \in Instances :
        Generated(i) =>
            \A j, k \in 1..Len(out[i].plan) :
                out[i].plan[j].step = out[i].plan[k].step => j = k

(***************************************************************************)
(* C27: add_command_from_palette called with a command id that is not in   *)
(* the registry never raises and never changes the workflow or code_cache: *)
(* it returns a failure, and that failure is always the level error (the   *)
(* command "is not available at Level L"); the "not found in palette"      *)
(* outcome is unreachable.                                                 *)
(***************************************************************************)
UnknownIdRefused(a) ==
    AddCommandFromPalette(a.id, a.custom)
    => /\ "error" \in DOMAIN ret' => ret'.error # NotFound(a.id).error
       /\ a.id \notin DOMAIN commands
          => /\ ~ret'.raised
             /\ ret'.success = FALSE
             /\ ret'.error = "Command '" \o a.id \o "' is not available at Level "
                             \o ToString(current_level)
             /\ sequence' = sequence
             /\ code_cache' = code_cache

C27_UnknownIdIsLevelError == [][\A a \in SessionAsks : UnknownIdRefused(a)]_vars

\* an id outside the registry has been refused at the last level, on a filled workflow
C27_Witness ==
    /\ ret.op = "add"
    /\ ~ret.raised
    /\ ~ret.success
    /\ ret.error = "Command '" \o NoSuchCommand \o "' is not available at Level "
                   \o ToString(LastLevel)
    /\ current_level = LastLevel
    /\ Len(sequence) = MaxSeq
    /\ code_cache # EmptyText

(***************************************************************************)
(* C28: get_available_commands_for_level(L) returns exactly the registry   *)
(* commands whose available_levels contain L, for L equal to or different  *)
(* from the current level (or left out: the current level), and leaves the *)
(* session's current_level and its palette's current_level equal to each   *)
(* other and to their values before the call.                              *)
(***************************************************************************)
\* the registry commands whose available_levels contain the level, once each
ExactlyThoseOf(list, level) ==
    /\ IdsOf(list) = { id \in DOMAIN commands : level \in commands[id].available_levels }
    /\ \A j, k \in 1..Len(list) : list[j].id = list[k].id => j = k
    /\ \A k \in 1..Len(list) : list[k] = Entry(list[k].id)

ListsLevel(given, asked) ==
    GetAvailableCommandsForLevel(given, asked)
    => /\ ~ret'.raised
       /\ ExactlyThoseOf(ret'.commands, IF given THEN asked ELSE current_level)
       /\ current_level' = current_level
       /\ pal_level' = pal_level
       /\ current_level' = pal_level'

C28_ListingKeepsLevel == [][\A given \in BOOLEAN, asked \in Levels : ListsLevel(given, asked)]_vars

\* the commands of the last level have been listed by a session that is at level 1
C28_Witness ==
    /\ ret.op = "available"
    /\ ret.asked = LastLevel
    /\ current_level = 1
    /\ pal_level = 1
    /\ Len(ret.commands) = Len(CommandIds)
    /\ sequence # <<>>

(***************************************************************************)
(* C29: VisualWorkflow.remove_command, update_command and move_command     *)
(* called with an index outside 0..len(sequence)-1 (move_command: either   *)
(* index) leave the sequence unchanged; with in-range indices              *)
(* remove_command shortens the sequence by exactly one, update_command and *)
(* move_command keep its length, and move_command leaves the moved command *)
(* at to_index with the relative order of all other commands preserved.    *)
(***************************************************************************)
InRange(index) == 0 <= index /\ index < Len(flow)

\* the other commands of a sequence, in their order
Without(seq, index) == [n \in 1..(Len(seq) - 1) |-> IF n <= index THEN seq[n] ELSE seq[n + 1]]

Removes(i) ==
    RemoveCommand(i)
    => IF InRange(i) THEN Len(flow') = Len(flow) - 1 ELSE flow' = flow

Updates(i, c) ==
    UpdateCommand(i, c)
    => IF InRange(i) THEN Len(flow') = Len(flow) ELSE flow' = flow

Moves(i, j) ==
    MoveCommand(i, j)
    => IF InRange(i) /\ InRange(j)
       THEN /\ Len(flow') = Len(flow)
            /\ flow'[j + 1] = flow[i + 1]
            /\ Without(flow', j) = Without(flow, i)
       ELSE flow' = flow

C29_WorkflowEdits ==
    [][\A i \in FlowIndices, j \in FlowIndices, c \in FlowCommands :
            Removes(i) /\ Updates(i, c) /\ Moves(i, j)]_vars

\* the first of three different commands has been moved to the end
C29_Witness ==
    /\ edit = [op |-> "move_command", from_index |-> 0, to_index |-> 2]
    /\ flow = <<TurnRight90, PrintA, MoveForward3>>

(***************************************************************************)
(* C30: exporting a session and importing the exported data, into the same *)
(* or a fresh GameplaySession, reproduces the workflow: after              *)
(* import_session(export_session()) the workflow sequence equals the       *)
(* exported sequence in content and order, whatever the workflow held      *)
(* before the import, and code_cache equals the exported template_based    *)
(* code.                                                                   *)
(***************************************************************************)
RoundTrip ==
    ImportExported
    => /\ ~ret'.raised
       /\ sequence' = ret.workflow
       /\ code_cache' = ret.code.template_based

C30_ExportImportRoundTrip == [][RoundTrip]_vars

====
